---- MODULE Spec2Model ----
(***************************************************************************)
(* A model of moonshine_save: the save pipeline (save.rs: save_on /        *)
(* save_world), the load pipeline (load.rs: read_file | unload |           *)
(* write_to_world | insert_into_loaded | insert_loaded) and the component  *)
(* mapper (lib.rs: SceneMapper / ComponentMapperImpl), over a world of     *)
(* entities with typed components.                                         *)
(*                                                                         *)
(* An entity id is a natural number; ids are never reused (an ECS entity   *)
(* id is an index plus a generation, so a freed id never aliases a new     *)
(* one).  The components of an entity are a function from the type names   *)
(* it carries to their values.                                             *)
(***************************************************************************)
EXTENDS Integers, Sequences, FiniteSets, TLC

VARIABLES
    world,      \* live entity id -> (component type -> value)
    resources,  \* the types of the resources the world holds
    nextId,     \* the next entity id the allocator hands out
    file,       \* the content of the save file
    input,      \* SaveInput of the installed save event: entities, components, mapper
    saveFilter, \* SaveEvent::SaveFilter of the installed save event
    loadMapper, \* SceneMapper of the installed load pipeline
    loaded,     \* the Loaded resource: NoResource or [entity_map |-> ...]
    phase,      \* where the schedule is: between updates, or past the Load set
    ops,        \* the save and load invocations so far
    faults,     \* the faults the environment injected so far
    last,       \* history: what the last save or load invocation did
    sched       \* the installed pipelines, their request events, the log of an update

vars ==
    <<world, resources, nextId, file, input, saveFilter, loadMapper, loaded,
      phase, ops, faults, last, sched>>

----------------------------------------------------------------------------
(* Bounds of the exploration.                                              *)

\* entities of the initial world
MaxEntities == 2
\* save and load invocations of one behaviour
MaxOps == 2
\* failures and file corruptions the environment injects in one behaviour
MaxFaults == 1
\* the entities of an initial world of markers and hierarchy
MaxTree == 3

----------------------------------------------------------------------------
(* Component types.                                                        *)

\* save.rs Save and load.rs Unload: markers, derive Component but not Reflect
Markers == {"Save", "Unload"}
\* data components carrying a u32; Foo is not serializable (tests/mapper.rs)
DataTypes == {"Foo", "SerializedFoo", "Baz"}
\* components holding entity ids (MapEntities): a plain reference and the hierarchy
RefTypes == {"FooBar", "ChildOf", "Children"}
ComponentTypes == Markers \cup DataTypes \cup RefTypes

\* the types the application registered for reflection (app.register_type)
Registered == {"SerializedFoo", "Baz", "FooBar", "ChildOf", "Children"}

NoComponents == [t \in {} |-> 0]

Has(components, t) == t \in DOMAIN components

\* EntityWorldMut::insert: attaches or overwrites
Insert(components, t, v) == [x \in (DOMAIN components) \cup {t} |->
                                IF x = t THEN v ELSE components[x]]

\* EntityWorldMut::remove / take: detaches if present
Remove(components, t) == [x \in (DOMAIN components) \ {t} |-> components[x]]

Range(s) == {s[i] : i \in DOMAIN s}

RECURSIVE SortedSeq(_)
\* the members of a finite set of ids in ascending order
SortedSeq(S) ==
    IF S = {} THEN <<>>
    ELSE LET m == CHOOSE x \in S : \A y \in S : x <= y
         IN  <<m>> \o SortedSeq(S \ {m})

\* the entities a component value refers to
Targets(t, v) ==
    IF t = "Children" THEN Range(v)
    ELSE IF t \in RefTypes THEN {v}
    ELSE {}

----------------------------------------------------------------------------
(* lib.rs: the component mapper.  A rule is [from |-> T, to |-> U]; a      *)
(* SceneMapper is a sequence of rules in registration order.               *)

\* MapComponent::map_component: the user's transform of a rule
map_component(v) == v + 1

\* an apply that takes the source component off the entity
apply_consuming(rule, components) ==
    IF Has(components, rule.from)
    THEN Insert(Remove(components, rule.from), rule.to,
                map_component(components[rule.from]))
    ELSE components

\* ComponentMapperImpl::apply
apply(rule, components) ==
    IF Has(components, rule.from)
    THEN Insert(components, rule.to, map_component(components[rule.from]))
    ELSE components

\* a replace that leaves the source component on the entity
replace_keeps_source(rule, components) == apply(rule, components)

\* a replace that transforms a default value when the source is missing
replace_default(rule, components) ==
    IF Has(components, rule.from)
    THEN Insert(Remove(components, rule.from), rule.to,
                map_component(components[rule.from]))
    ELSE Insert(components, rule.to, map_component(0))

\* ComponentMapperImpl::replace
replace(rule, components) ==
    IF Has(components, rule.from)
    THEN Insert(Remove(components, rule.from), rule.to,
                map_component(components[rule.from]))
    ELSE components

\* an undo that leaves the output component on the entity
undo_keeps_output(rule, components) == components

\* ComponentMapperImpl::undo
undo(rule, components) == Remove(components, rule.to)

\* a map that drops the rules already registered for the same input type
SceneMapper_map_replacing(mapper, rule) ==
    Append(SelectSeq(mapper, LAMBDA r : r.from # rule.from), rule)

\* SceneMapper::map: pushes the rule
SceneMapper_map(mapper, rule) == Append(mapper, rule)

RECURSIVE SceneMapper_apply_reversed(_, _)
\* an apply that runs the rules from the last registered to the first
SceneMapper_apply_reversed(mapper, components) ==
    IF mapper = <<>> THEN components
    ELSE apply(Head(mapper), SceneMapper_apply_reversed(Tail(mapper), components))

RECURSIVE SceneMapper_apply(_, _)
SceneMapper_apply(mapper, components) ==
    IF mapper = <<>> THEN components
    ELSE SceneMapper_apply(Tail(mapper), apply(Head(mapper), components))

RECURSIVE SceneMapper_replace(_, _)
SceneMapper_replace(mapper, components) ==
    IF mapper = <<>> THEN components
    ELSE SceneMapper_replace(Tail(mapper), replace(Head(mapper), components))

RECURSIVE SceneMapper_undo(_, _)
SceneMapper_undo(mapper, components) ==
    IF mapper = <<>> THEN components
    ELSE SceneMapper_undo(Tail(mapper), undo(Head(mapper), components))

----------------------------------------------------------------------------
(* save.rs: the save event and save_world.                                 *)

\* SaveEvent::SaveFilter: DefaultSaveFilter = With<Save>, or () for every entity
SaveFilters == {"With<Save>", "()"}

\* whether an entity matches the QueryFilter F of query_filtered::<Entity, F>
Matches(filter, components) ==
    IF filter = "With<Save>" THEN Has(components, "Save")
    ELSE IF filter = "Or<(With<Save>, With<Unload>)>"
         THEN Has(components, "Save") \/ Has(components, "Unload")
    ELSE TRUE

\* EntityFilter::any / allow / block
EntityFilter_any == [kind |-> "Block", set |-> {}]
EntityFilter_allow(S) == [kind |-> "Allow", set |-> S]
EntityFilter_block(S) == [kind |-> "Block", set |-> S]

\* the resource types: Bar derives Reflect with reflect(Resource) and is
\* registered, EventTriggered is a plain Resource
ResourceTypes == {"Bar", "EventTriggered"}
RegisteredResources == {"Bar"}

\* SceneFilter::allow_all is an empty denylist; SceneFilter::deny adds to it.
\* SceneFilter::deny_all is an empty allowlist; SceneFilter::allow adds to it
SceneFilter_allow_all == [kind |-> "Denylist", set |-> {}]
SceneFilter_deny_all == [kind |-> "Allowlist", set |-> {}]
SceneFilter_allow(filter, t) ==
    IF filter.kind = "Allowlist"
    THEN [filter EXCEPT !.set = @ \cup {t}]
    ELSE [filter EXCEPT !.set = @ \ {t}]
SceneFilter_deny(filter, t) ==
    IF filter.kind = "Denylist"
    THEN [filter EXCEPT !.set = @ \cup {t}]
    ELSE [filter EXCEPT !.set = @ \ {t}]
SceneFilter_is_allowed(filter, t) ==
    IF filter.kind = "Denylist" THEN t \notin filter.set ELSE t \in filter.set

\* SaveWorld::exclude_component
exclude_component(inp, t) ==
    [inp EXCEPT !.components = SceneFilter_deny(@, t)]

\* SaveWorld::include_resource
include_resource(inp, t) ==
    [inp EXCEPT !.resources = SceneFilter_allow(@, t)]

\* SaveWorld::map_component: the mapper with the rule registered
SaveWorld_map_component(inp, rule) ==
    [inp EXCEPT !.mapper = SceneMapper_map(@, rule)]

\* SaveInput::default
SaveInput_default ==
    [entities |-> EntityFilter_any,
     components |-> SceneFilter_allow_all,
     resources |-> SceneFilter_deny_all,
     mapper |-> <<>>]

\* a filter_entity with the arms of Allow and Block exchanged
filter_entity_exchanged(inp, entity) ==
    IF inp.entities.kind = "Allow"
    THEN entity \notin inp.entities.set
    ELSE entity \in inp.entities.set

\* SaveWorld::filter_entity
filter_entity(inp, entity) ==
    IF inp.entities.kind = "Allow"
    THEN entity \in inp.entities.set
    ELSE entity \notin inp.entities.set

\* SaveWorld::before_serialize
before_serialize(inp, components) == SceneMapper_apply(inp.mapper, components)

\* an after_serialize that never runs the undo
after_serialize_skipped(inp, components) == components

\* SaveWorld::after_serialize
after_serialize(inp, components) == SceneMapper_undo(inp.mapper, components)

\* the query of save_world: the entities matching F that pass filter_entity
SelectEntities(w, inp, filter) ==
    {e \in DOMAIN w : Matches(filter, w[e]) /\ filter_entity(inp, e)}

\* an extraction that was not given the component filter
ExtractComponents_unfiltered(inp, components) ==
    [t \in {x \in DOMAIN components : x \in Registered} |-> components[t]]

\* DynamicSceneBuilder::extract_entities: per entity, the components whose type
\* is registered and passes the component filter
ExtractComponents(inp, components) ==
    [t \in {x \in DOMAIN components :
               x \in Registered /\ SceneFilter_is_allowed(inp.components, x)}
       |-> components[t]]

\* an extraction of resources that was not given the resource filter
ExtractResources_unfiltered(inp, res) == res \cap RegisteredResources

\* DynamicSceneBuilder::extract_resources: the resources of the world whose
\* type is registered and passes the resource filter
ExtractResources(inp, res) ==
    {r \in res : r \in RegisteredResources
                 /\ SceneFilter_is_allowed(inp.resources, r)}

\* DynamicSceneBuilder::build: the extracted entities, ordered by entity id
BuildScene(w, inp, entities) ==
    LET order == SortedSeq(entities)
    IN  [i \in 1..Len(order) |->
            [entity |-> order[i],
             components |-> ExtractComponents(inp, w[order[i]])]]

\* SaveOutput, and where an invocation fails (the file system and the codec
\* are the environment): "dir" is create_dir_all, "serialize" is
\* scene.serialize, "write" is fs::write / write_all
SaveOutputs == {"File", "Stream", "Drop"}
Failures == {"none", "dir", "serialize", "write"}

\* an output that writes what it has before the serializer reports its error
WriteOutput_write_first(output, fail) ==
    IF output = "Drop" THEN [result |-> "Ok", steps |-> <<>>]
    ELSE IF fail = "dir" THEN [result |-> "Io", steps |-> <<"create_dir">>]
    ELSE [result |-> IF fail = "serialize" THEN "Ron"
                     ELSE IF fail = "write" THEN "Io" ELSE "Ok",
          steps |-> (IF output = "File" THEN <<"create_dir">> ELSE <<>>)
                    \o <<"write", "serialize">>]

\* an output whose Drop serializes and writes as a stream does
WriteOutput_drop_writes(output, fail) ==
    IF output = "File" THEN
        IF fail = "dir" THEN [result |-> "Io", steps |-> <<"create_dir">>]
        ELSE IF fail = "serialize"
             THEN [result |-> "Ron", steps |-> <<"create_dir", "serialize">>]
        ELSE IF fail = "write"
             THEN [result |-> "Io", steps |-> <<"create_dir", "serialize", "write">>]
        ELSE [result |-> "Ok", steps |-> <<"create_dir", "serialize", "write">>]
    ELSE IF fail = "serialize" THEN [result |-> "Ron", steps |-> <<"serialize">>]
    ELSE IF fail = "write" THEN [result |-> "Io", steps |-> <<"serialize", "write">>]
    ELSE [result |-> "Ok", steps |-> <<"serialize", "write">>]

\* the steps of save_world after the scene is built: the match on event.output()
WriteOutput(output, fail) ==
    IF output = "File" THEN
        IF fail = "dir" THEN [result |-> "Io", steps |-> <<"create_dir">>]
        ELSE IF fail = "serialize"
             THEN [result |-> "Ron", steps |-> <<"create_dir", "serialize">>]
        ELSE IF fail = "write"
             THEN [result |-> "Io", steps |-> <<"create_dir", "serialize", "write">>]
        ELSE [result |-> "Ok", steps |-> <<"create_dir", "serialize", "write">>]
    ELSE IF output = "Stream" THEN
        IF fail = "serialize" THEN [result |-> "Ron", steps |-> <<"serialize">>]
        ELSE IF fail = "write"
             THEN [result |-> "Io", steps |-> <<"serialize", "write">>]
        ELSE [result |-> "Ok", steps |-> <<"serialize", "write">>]
    ELSE [result |-> "Ok", steps |-> <<>>]

\* a save_world that runs the output before after_serialize and stops at
\* the first failure
save_world_unmap_last(w, res, inp, filter, output, fail) ==
    LET entities == SelectEntities(w, inp, filter)
        mapped == [e \in DOMAIN w |->
                     IF e \in entities THEN before_serialize(inp, w[e]) ELSE w[e]]
        scene == BuildScene(mapped, inp, entities)
        unmapped == [e \in DOMAIN w |->
                       IF e \in entities THEN after_serialize(inp, mapped[e])
                       ELSE mapped[e]]
        out == WriteOutput(output, fail)
    IN  [entities |-> entities,
         mapped |-> mapped,
         scene |-> scene,
         resources |-> ExtractResources(inp, res),
         world |-> IF out.result = "Ok" THEN unmapped ELSE mapped,
         result |-> out.result,
         steps |-> <<"filter", "before_serialize", "build">> \o out.steps
                     \o (IF out.result = "Ok" THEN <<"after_serialize">>
                         ELSE <<>>)]

\* a save_world whose after_serialize loop runs over every live entity
save_world_undo_all(w, res, inp, filter, output, fail) ==
    LET entities == SelectEntities(w, inp, filter)
        mapped == [e \in DOMAIN w |->
                     IF e \in entities THEN before_serialize(inp, w[e]) ELSE w[e]]
        scene == BuildScene(mapped, inp, entities)
        unmapped == [e \in DOMAIN w |-> after_serialize(inp, mapped[e])]
        out == WriteOutput(output, fail)
    IN  [entities |-> entities,
         mapped |-> mapped,
         scene |-> scene,
         resources |-> ExtractResources(inp, res),
         world |-> unmapped,
         result |-> out.result,
         steps |-> <<"filter", "before_serialize", "build", "after_serialize">>
                     \o out.steps]

\* save_world: filter, before_serialize on every selected entity, build the
\* scene, after_serialize on every selected entity, then the output
save_world(w, res, inp, filter, output, fail) ==
    LET entities == SelectEntities(w, inp, filter)
        mapped == [e \in DOMAIN w |->
                     IF e \in entities THEN before_serialize(inp, w[e]) ELSE w[e]]
        scene == BuildScene(mapped, inp, entities)
        unmapped == [e \in DOMAIN w |->
                       IF e \in entities THEN after_serialize(inp, mapped[e])
                       ELSE mapped[e]]
        out == WriteOutput(output, fail)
    IN  [entities |-> entities,
         mapped |-> mapped,
         scene |-> scene,
         resources |-> ExtractResources(inp, res),
         world |-> unmapped,
         result |-> out.result,
         steps |-> <<"filter", "before_serialize", "build", "after_serialize">>
                     \o out.steps]

\* a save_on that triggers OnSave only when the save succeeded
save_on_success_only(w, res, inp, filter, output, fail) ==
    LET r == save_world(w, res, inp, filter, output, fail)
    IN  [r EXCEPT !.steps = IF r.result = "Ok" THEN Append(@, "OnSave") ELSE @]
        @@ [events |-> IF r.result = "Ok" THEN <<r.result>> ELSE <<>>,
            seen |-> r.world]

\* a save_on whose observers see the world as the scene was built from it
save_on_before_undo(w, res, inp, filter, output, fail) ==
    LET r == save_world(w, res, inp, filter, output, fail)
    IN  [r EXCEPT !.steps = Append(@, "OnSave")]
        @@ [events |-> <<r.result>>, seen |-> r.mapped]

\* save_on: run save_world, then trigger OnSave with its result.  seen is
\* the world the observers of OnSave are given: the one save_world left
save_on(w, res, inp, filter, output, fail) ==
    LET r == save_world(w, res, inp, filter, output, fail)
    IN  [r EXCEPT !.steps = Append(@, "OnSave")]
        @@ [events |-> <<r.result>>, seen |-> r.world]

----------------------------------------------------------------------------
(* load.rs: the stages of the load pipeline.  A stage takes and returns a  *)
(* record [ok, err, scene, scene_resources, mapper, entity_map, world,     *)
(* resources, nextId, panicked, steps]: the Result piped between the       *)
(* systems together with the world and the stages that did their work.     *)

NoMap == [k \in {} |-> 0]

\* a type registered for reflection without ReflectComponent: the scene
\* deserializer accepts it, and write_to_world fails on it with
\* SceneSpawnError (LoadError::Scene)
ReflectedOnly == {"Opaque"}

\* the file as the load sees it: absent, not RON, RON naming a type the
\* registry does not know, or a serialized scene
FileKinds == {"none", "garbage", "unknown_type", "scene"}

\* dir tells whether the parent directory of the path exists.  source is
\* history: the components, before the save, of the entities the scene was
\* taken from
NoFile ==
    [kind |-> "none", scene |-> <<>>, resources |-> {}, source |-> NoMap,
     dir |-> FALSE]

\* read_static_file / read_file: fs::read, ron::Deserializer::from_bytes,
\* SceneDeserializer::deserialize
read_file(f, w, res, next) ==
    LET err == IF f.kind = "none" THEN "Io"
               ELSE IF f.kind = "garbage" THEN "De"
               ELSE IF f.kind = "unknown_type" THEN "Ron"
               ELSE "none"
    IN  [ok |-> err = "none", err |-> err,
         scene |-> IF err = "none" THEN f.scene ELSE <<>>,
         scene_resources |-> IF err = "none" THEN f.resources ELSE {},
         mapper |-> <<>>, entity_map |-> NoMap,
         world |-> w, resources |-> res, nextId |-> next, panicked |-> FALSE,
         steps |-> <<"read">>]

\* LoadPipelineBuilder::load: attaches the builder's mapper to Saved
with_mapper(s, mapper) ==
    IF s.ok THEN [s EXCEPT !.mapper = mapper] ELSE s

\* removes entity from the Children of its parent (the on_replace hook of ChildOf)
DetachFromParent(w, entity) ==
    IF Has(w[entity], "ChildOf")
    THEN LET parent == w[entity]["ChildOf"]
         IN  IF parent \in DOMAIN w /\ parent # entity /\ Has(w[parent], "Children")
             THEN LET rest == SelectSeq(w[parent]["Children"],
                                        LAMBDA c : c # entity)
                  IN  [w EXCEPT ![parent] =
                         IF rest = <<>> THEN Remove(@, "Children")
                         ELSE Insert(@, "Children", rest)]
             ELSE w
    ELSE w

RECURSIVE DespawnAll(_, _)
RECURSIVE despawn(_, _)
\* EntityWorldMut::despawn: detaches the entity from its parent, removes it
\* and despawns the entities of its Children that are alive
despawn(w, entity) ==
    LET children == IF Has(w[entity], "Children")
                    THEN w[entity]["Children"] ELSE <<>>
        detached == DetachFromParent(w, entity)
        removed == [e \in (DOMAIN w) \ {entity} |-> detached[e]]
    IN  DespawnAll(removed, children)

DespawnAll(w, entities) ==
    IF entities = <<>> THEN w
    ELSE IF Head(entities) \in DOMAIN w
         THEN DespawnAll(despawn(w, Head(entities)), Tail(entities))
         ELSE DespawnAll(w, Tail(entities))

\* DefaultUnloadFilter
DefaultUnloadFilter == "Or<(With<Save>, With<Unload>)>"

\* an unload that takes every collected entity to exist
get_entity_mut_unchecked(w, entity) == TRUE

\* the guard of unload: world.get_entity_mut(entity) is Ok
get_entity_mut_ok(w, entity) == entity \in DOMAIN w

RECURSIVE unload_loop(_, _)
\* the loop of unload over the collected entities; despawning an entity
\* that does not exist panics
unload_loop(s, entities) ==
    IF entities = <<>> THEN s
    ELSE LET entity == Head(entities)
         IN  IF get_entity_mut_ok(s.world, entity)
             THEN IF entity \in DOMAIN s.world
                  THEN unload_loop([s EXCEPT !.world = despawn(@, entity)],
                                   Tail(entities))
                  ELSE [s EXCEPT !.panicked = TRUE, !.ok = FALSE, !.err = "panic"]
             ELSE unload_loop(s, Tail(entities))

\* the entities unload collects
UnloadQuery(w) == {e \in DOMAIN w : Matches(DefaultUnloadFilter, w[e])}

\* an unload that does not look at the result it is given
unload_ignoring_error(s, order) == unload_loop(s, order)

\* unload: passes an error through; otherwise despawns, in the order the
\* query yields them, the entities that match the filter
unload(s, order) ==
    IF ~s.ok THEN s
    ELSE unload_loop([s EXCEPT !.steps = Append(@, "unload")], order)

\* a mapper that leaves every id as it was saved
get_mapped_identity(m, source) == [m EXCEPT !.value = source]

\* a mapper that leaves an id the map does not know as it was saved
get_mapped_known_only(m, source) ==
    IF source \in DOMAIN m.map
    THEN [m EXCEPT !.value = m.map[source]]
    ELSE [m EXCEPT !.value = source]

\* a mapper that does not record the id it makes up for an unknown id
get_mapped_unrecorded(m, source) ==
    IF source \in DOMAIN m.map
    THEN [m EXCEPT !.value = m.map[source]]
    ELSE [m EXCEPT !.next = @ + 1, !.value = m.next]

\* EntityMapper::get_mapped of SceneEntityMapper: the image of a saved id, a
\* fresh id that stands for no entity when the map has none
get_mapped(m, source) ==
    IF source \in DOMAIN m.map
    THEN [m EXCEPT !.value = m.map[source]]
    ELSE [map |-> (source :> m.next) @@ m.map,
          next |-> m.next + 1,
          value |-> m.next]

RECURSIVE map_children(_, _, _)
map_children(m, children, acc) ==
    IF children = <<>> THEN [m EXCEPT !.value = acc]
    ELSE LET r == get_mapped(m, Head(children))
         IN  map_children(r, Tail(children), Append(acc, r.value))

\* MapEntities::map_entities of a component value
map_entities(m, t, v) ==
    IF t = "Children" THEN map_children(m, v, <<>>)
    ELSE IF t \in RefTypes THEN get_mapped(m, v)
    ELSE [m EXCEPT !.value = v]

\* the order in which an entity's components are applied
ComponentOrder ==
    <<"SerializedFoo", "Baz", "Opaque", "FooBar", "ChildOf", "Children">>

RECURSIVE spawn_entities(_, _)
\* DynamicScene::write_to_world, first loop: a new empty entity per scene entity
spawn_entities(s, entities) ==
    IF entities = <<>> THEN s
    ELSE LET saved == Head(entities).entity
         IN  IF saved \in DOMAIN s.entity_map
             THEN spawn_entities(s, Tail(entities))
             ELSE spawn_entities(
                    [s EXCEPT !.entity_map = (saved :> s.nextId) @@ @,
                              !.world = (s.nextId :> NoComponents) @@ @,
                              !.nextId = @ + 1],
                    Tail(entities))

RECURSIVE insert_components(_, _, _, _)
\* apply_or_insert_mapped for each component of one scene entity
insert_components(s, entity, components, types) ==
    IF types = <<>> THEN s
    ELSE LET t == Head(types)
         IN  IF ~Has(components, t)
             THEN insert_components(s, entity, components, Tail(types))
             ELSE IF t \in ReflectedOnly
             THEN [s EXCEPT !.ok = FALSE, !.err = "Scene"]
             ELSE LET r == map_entities([map |-> s.entity_map, next |-> s.nextId,
                                         value |-> 0], t, components[t])
                  IN  insert_components(
                        [s EXCEPT !.entity_map = r.map,
                                  !.nextId = r.next,
                                  !.world[entity] = Insert(@, t, r.value)],
                        entity, components, Tail(types))

RECURSIVE write_entities(_, _)
\* DynamicScene::write_to_world, second loop
write_entities(s, entities) ==
    IF entities = <<>> \/ ~s.ok THEN s
    ELSE write_entities(
           insert_components(s, s.entity_map[Head(entities).entity],
                             Head(entities).components, ComponentOrder),
           Tail(entities))

\* DynamicScene::write_to_world: the entities, then the resources
\* a scene write that takes a live entity of the saved id for the scene
\* entity instead of spawning one
scene_write_to_world_in_place(s) ==
    LET ids == {s.scene[k].entity : k \in DOMAIN s.scene} \cap DOMAIN s.world
        reused == [s EXCEPT !.entity_map = [k \in ids |-> k]]
        written == write_entities(spawn_entities(reused, s.scene), s.scene)
    IN  IF written.ok
        THEN [written EXCEPT !.resources = @ \cup s.scene_resources]
        ELSE written

scene_write_to_world(s) ==
    LET written == write_entities(spawn_entities(s, s.scene), s.scene)
    IN  IF written.ok
        THEN [written EXCEPT !.resources = @ \cup s.scene_resources]
        ELSE written

\* a mapper loop that stops after the first entity it is given
replace_each_first(mapper, w, order) ==
    IF order = <<>> \/ Head(order) \notin DOMAIN w THEN w
    ELSE [w EXCEPT ![Head(order)] = SceneMapper_replace(mapper, @)]

RECURSIVE replace_each(_, _, _)
\* the mapper loop of write_to_world on the order in which
\* entity_map.values() yields the entities: replace on each one that is
\* alive
replace_each(mapper, w, order) ==
    IF order = <<>> THEN w
    ELSE LET e == Head(order)
         IN  replace_each(mapper,
                          IF e \in DOMAIN w
                          THEN [w EXCEPT ![e] = SceneMapper_replace(mapper, @)]
                          ELSE w,
                          Tail(order))

\* a mapper loop that runs replace on every live entity
replace_all(s) ==
    IF s.mapper = <<>> THEN s
    ELSE [s EXCEPT !.steps = Append(@, "replace"), !.world =
            [e \in DOMAIN s.world |-> SceneMapper_replace(s.mapper, s.world[e])]]

\* the mapper loop of write_to_world: replace on every value of the map
\* that is alive, when the mapper is not empty
replace_loaded(s) ==
    IF s.mapper = <<>> THEN s
    ELSE [s EXCEPT !.steps = Append(@, "replace"), !.world =
            [e \in DOMAIN s.world |->
               IF e \in Range(s.entity_map)
               THEN SceneMapper_replace(s.mapper, s.world[e])
               ELSE s.world[e]]]

\* a write_to_world that takes back what it spawned when the scene fails
write_to_world_rollback(s) ==
    IF ~s.ok THEN s
    ELSE LET written == scene_write_to_world(
                           [s EXCEPT !.steps = Append(@, "write_to_world")])
         IN  IF written.ok THEN replace_loaded(written)
             ELSE [written EXCEPT !.world = s.world, !.entity_map = NoMap]

\* write_to_world: passes an error through; otherwise instantiates the
\* scene, returns its error if it fails, and runs the mapper if it does not
write_to_world(s) ==
    IF ~s.ok THEN s
    ELSE LET written == scene_write_to_world(
                           [s EXCEPT !.steps = Append(@, "write_to_world")])
         IN  IF written.ok THEN replace_loaded(written) ELSE written

\* an insert_into_loaded that inserts nothing
insert_into_loaded_nothing(s, bundle) == s

\* an insert_into_loaded that does not look at the result it is given
insert_into_loaded_ignoring_error(s, bundle) ==
    [s EXCEPT !.world =
        [e \in DOMAIN s.world |->
           IF e \in Range(s.entity_map)
           THEN Insert(s.world[e], bundle, TRUE)
           ELSE s.world[e]]]

\* insert_into_loaded(bundle): inserts the bundle into every value of the
\* map that is alive; a value that is not alive is logged
insert_into_loaded(s, bundle) ==
    IF ~s.ok THEN s
    ELSE [s EXCEPT !.steps = Append(@, "insert_into_loaded"), !.world =
            [e \in DOMAIN s.world |->
               IF e \in Range(s.entity_map)
               THEN Insert(s.world[e], bundle, TRUE)
               ELSE s.world[e]]]

\* is the Loaded resource absent
NoResource == [present |-> FALSE, entity_map |-> NoMap]

\* an insert_loaded that triggers OnLoaded before it inserts the resource
insert_loaded_trigger_first(s, resource) ==
    IF s.ok
    THEN [resource |-> [present |-> TRUE, entity_map |-> s.entity_map],
          events |-> <<"OnLoaded">>,
          observed |-> resource]
    ELSE [resource |-> resource, events |-> <<>>, observed |-> resource]

\* insert_loaded: inserts the Loaded resource and then triggers OnLoaded on
\* success, logs on failure.  observed is the Loaded resource of the world
\* at the trigger
insert_loaded(s, resource) ==
    IF s.ok
    THEN LET inserted == [present |-> TRUE, entity_map |-> s.entity_map]
         IN  [resource |-> inserted,
              events |-> <<"OnLoaded">>,
              observed |-> inserted]
    ELSE [resource |-> resource, events |-> <<>>, observed |-> resource]

\* load: p.load() | unload | write_to_world | insert_into_loaded(Save) | insert_loaded.
\* spawned is the stage inside write_to_world at which the scene is written
\* and the mapper has not run
load(f, mapper, w, res, next, order) ==
    LET read == with_mapper(read_file(f, w, res, next), mapper)
        unloaded == unload(read, order)
        written == write_to_world(unloaded)
        marked == insert_into_loaded(written, "Save")
        spawned == IF unloaded.ok
                   THEN scene_write_to_world(
                           [unloaded EXCEPT !.steps = Append(@, "write_to_world")])
                   ELSE unloaded
    IN  [read |-> read, unloaded |-> unloaded, written |-> written,
         marked |-> marked, spawned |-> spawned]

----------------------------------------------------------------------------
(* The initial worlds and the installed configurations.                    *)

Opt(t, values) == {NoComponents} \cup {(t :> v) : v \in values}

\* entities that carry data: the Save marker, Foo and SerializedFoo
DataBundles ==
    {a @@ b @@ c : a \in Opt("Save", {TRUE}),
                   b \in Opt("Foo", {0}),
                   c \in Opt("SerializedFoo", {0})}

\* entities that carry relations: a marker and a reference
RelBundles(n) ==
    {a @@ c : a \in Opt("Save", {TRUE}) \cup Opt("Unload", {TRUE}),
              c \in Opt("FooBar", 1..n)}

\* the children of entity p under the parent assignment, in spawn order
ChildrenOf(parents, p) ==
    SelectSeq(SortedSeq(DOMAIN parents), LAMBDA c : parents[c] = p)

\* the world of bundles with the hierarchy given by parents (0 for no parent):
\* a child carries ChildOf and its parent lists it in Children
WithHierarchy(bundles, parents) ==
    [e \in DOMAIN bundles |->
        LET own == IF parents[e] # 0
                   THEN Insert(bundles[e], "ChildOf", parents[e])
                   ELSE bundles[e]
        IN  IF ChildrenOf(parents, e) # <<>>
            THEN Insert(own, "Children", ChildrenOf(parents, e))
            ELSE own]

DataWorlds ==
    UNION {[1..n -> DataBundles] : n \in 0..MaxEntities}

RelWorlds ==
    UNION {{WithHierarchy(b, p) :
              b \in [1..n -> RelBundles(n)],
              p \in {q \in [1..n -> 0..n] : \A e \in 1..n : q[e] < e}}
           : n \in 1..MaxEntities}

\* worlds of MaxTree entities that carry at most a marker, in every hierarchy
TreeWorlds ==
    {WithHierarchy(b, p) :
        b \in [1..MaxTree -> Opt("Save", {TRUE}) \cup Opt("Unload", {TRUE})],
        p \in {q \in [1..MaxTree -> 0..MaxTree] : \A e \in 1..MaxTree : q[e] < e}}

Rule(from, to) == [from |-> from, to |-> to]

RECURSIVE with_mappers(_, _)
with_mappers(inp, rules) ==
    IF rules = <<>> THEN inp
    ELSE with_mappers(SaveWorld_map_component(inp, Head(rules)), Tail(rules))

\* the save mappers explored
SaveMappers == {<<>>, <<Rule("Foo", "SerializedFoo")>>}

\* the load mappers explored
LoadMappers ==
    {<<>>,
     <<Rule("SerializedFoo", "Foo")>>,
     <<Rule("SerializedFoo", "Foo"), Rule("Foo", "Baz")>>}

\* the entity filters explored
EntityFilters ==
    {EntityFilter_any, EntityFilter_allow({}), EntityFilter_allow({1}),
     EntityFilter_block({1})}

\* data worlds under the default selection: the save mapper, the load mapper
\* and the exclusion of a component type vary
InitMapper ==
    /\ resources = {}
    /\ world \in DataWorlds
    /\ saveFilter = "With<Save>"
    /\ \E m \in SaveMappers :
          \/ /\ input = with_mappers(SaveInput_default, m)
             /\ loadMapper \in LoadMappers
          \/ /\ input = with_mappers(
                          exclude_component(SaveInput_default, "SerializedFoo"), m)
             /\ loadMapper = <<>>

\* data worlds under a save mapper: the query filter and the entity filter vary
InitSelection ==
    /\ resources = {}
    /\ world \in DataWorlds
    /\ saveFilter \in SaveFilters
    /\ \E f \in EntityFilters :
          input = with_mappers([SaveInput_default EXCEPT !.entities = f],
                               <<Rule("Foo", "SerializedFoo")>>)
    /\ loadMapper = <<>>

\* worlds of references and hierarchy: the query filter and the entity
\* filter vary, or a reference type is excluded
InitRelations ==
    /\ resources = {}
    /\ world \in RelWorlds
    /\ \/ /\ saveFilter \in SaveFilters
          /\ \E f \in EntityFilters \ {EntityFilter_allow({})} :
                input = [SaveInput_default EXCEPT !.entities = f]
       \/ /\ saveFilter = "With<Save>"
          /\ input = exclude_component(SaveInput_default, "FooBar")
    /\ loadMapper = <<>>

\* worlds of markers and hierarchy under the default save
InitHierarchy ==
    /\ resources = {}
    /\ world \in TreeWorlds
    /\ saveFilter = "With<Save>"
    /\ input = SaveInput_default
    /\ loadMapper = <<>>

\* worlds with resources under the default selection: the resources of the
\* world, the included resource types and an excluded component type vary
InitResources ==
    /\ resources \in SUBSET ResourceTypes
    /\ world \in {w \in DataWorlds : DOMAIN w = 1..1 /\ Has(w[1], "Save")}
    /\ saveFilter = "With<Save>"
    /\ input \in {SaveInput_default,
                  include_resource(SaveInput_default, "Bar"),
                  include_resource(SaveInput_default, "EventTriggered"),
                  include_resource(
                     include_resource(SaveInput_default, "Bar"), "EventTriggered"),
                  exclude_component(
                     include_resource(SaveInput_default, "Bar"), "SerializedFoo")}
    /\ loadMapper = <<>>

\* no invocation yet
NoInvocation ==
    [kind |-> "none", before |-> NoMap, result |-> "none", events |-> <<>>,
     steps |-> <<>>, entities |-> {}, scene |-> <<>>, output |-> "none",
     fault |-> "none", unloaded |-> NoMap, entity_map |-> NoMap,
     source |-> NoMap, panicked |-> FALSE, written |-> NoMap,
     resources |-> {}, observed |-> NoResource, seen |-> NoMap,
     mapped |-> NoMap, instantiated |-> NoMap]

\* no pipeline installed in a schedule, no request event sent, no
\* invocation under way
NoSchedule ==
    [save |-> "none", load |-> "none", a |-> <<>>, b |-> <<>>, cursor |-> 0,
     count |-> 0, sent |-> <<>>, updates |-> 0, requests |-> 0,
     other |-> NoFile, log |-> <<>>, stack |-> <<>>]

Init ==
    /\ sched = NoSchedule
    /\ InitMapper \/ InitSelection \/ InitRelations \/ InitHierarchy
       \/ InitResources
    /\ nextId = Cardinality(DOMAIN world) + 1
    /\ file = NoFile
    /\ loaded = NoResource
    /\ phase = "idle"
    /\ ops = 0
    /\ faults = 0
    /\ last = NoInvocation

----------------------------------------------------------------------------
(* The operations.                                                         *)

\* the sequences that list each member of a finite set once
Orders(S) ==
    {o \in [1..Cardinality(S) -> S] : \A i, j \in DOMAIN o : o[i] = o[j] => i = j}

\* the file after the output of a save: a write that succeeds leaves the
\* scene, a write that fails leaves a partial file
FileAfter(f, w, r, fail) ==
    LET dir == f.dir \/ (fail # "dir" /\ "create_dir" \in Range(r.steps))
    IN  IF "write" \in Range(r.steps)
        THEN IF r.result = "Ok"
             THEN [kind |-> "scene", scene |-> r.scene,
                   resources |-> r.resources,
                   source |-> [e \in r.entities |-> w[e]],
                   dir |-> dir]
             ELSE [kind |-> "garbage", scene |-> <<>>,
                   resources |-> {},
                   source |-> NoMap, dir |-> dir]
        ELSE [f EXCEPT !.dir = dir]

\* the history record of a save invocation
SaveInvocation(w, r, output, fail) ==
    [NoInvocation EXCEPT
        !.kind = "save", !.before = w, !.result = r.result,
        !.events = r.events, !.steps = r.steps,
        !.entities = r.entities, !.scene = r.scene,
        !.output = output, !.fault = fail,
        !.resources = r.resources, !.seen = r.seen, !.mapped = r.mapped]

\* the history record of a load invocation
LoadInvocation(w, f, r, fin) ==
    [NoInvocation EXCEPT
        !.kind = "load", !.before = w,
        !.result = IF r.marked.ok THEN "Ok" ELSE r.marked.err,
        !.events = fin.events,
        !.observed = fin.observed,
        !.steps = Append(r.marked.steps, "insert_loaded"),
        !.written = r.written.world,
        !.instantiated = r.spawned.world,
        !.scene = r.read.scene,
        !.unloaded = r.unloaded.world,
        !.entity_map = r.marked.entity_map,
        !.source = IF r.read.ok THEN f.source ELSE NoMap,
        !.panicked = r.marked.panicked]

\* a save event is triggered: save_on runs to its end.
Save(output, fail) ==
    LET r == save_on(world, resources, input, saveFilter, output, fail)
    IN  /\ ops < MaxOps
        /\ fail # "none" => faults < MaxFaults
        /\ ops' = ops + 1
        /\ faults' = IF fail # "none" THEN faults + 1 ELSE faults
        /\ world' = r.world
        /\ file' = FileAfter(file, world, r, fail)
        /\ last' = SaveInvocation(world, r, output, fail)
        /\ UNCHANGED <<sched, resources, nextId, input, saveFilter, loadMapper, loaded,
                       phase>>

\* an update reaches LoadSystem::Load in PreUpdate and the load system
\* runs: the whole pipe, on the order the unload query yields
Load(order) ==
    LET r == load(file, loadMapper, world, resources, nextId, order)
        done == r.marked
        fin == insert_loaded(done, loaded)
    IN  /\ phase = "idle"
        /\ ops < MaxOps
        /\ ops' = ops + 1
        /\ phase' = "PostLoad"
        /\ world' = done.world
        /\ resources' = done.resources
        /\ nextId' = done.nextId
        /\ loaded' = fin.resource
        /\ last' = LoadInvocation(world, file, r, fin)
        /\ UNCHANGED <<sched, file, input, saveFilter, loadMapper, faults>>

\* a remove_resource that leaves the resource in the world
remove_resource_kept(resource) == resource

\* moonshine_util remove_resource::<Loaded>
remove_resource(resource) == NoResource

\* LoadPlugin: the rest of the update after the Load set.  LoadSystem::PostLoad
\* runs if the Loaded resource exists, and remove_resource::<Loaded> is in it
PostLoad ==
    /\ phase = "PostLoad"
    /\ phase' = "idle"
    /\ loaded' = IF loaded.present THEN remove_resource(loaded) ELSE loaded
    /\ UNCHANGED <<sched, world, resources, nextId, file, input, saveFilter, loadMapper,
                   ops, faults, last>>

\* the environment damages the saved file
CorruptFile(kind) ==
    /\ file.kind = "scene"
    /\ ops < MaxOps
    /\ faults < MaxFaults
    /\ faults' = faults + 1
    /\ file' = [kind |-> kind, scene |-> <<>>, resources |-> {},
                source |-> NoMap, dir |-> file.dir]
    /\ UNCHANGED <<sched, world, resources, nextId, input, saveFilter, loadMapper, loaded,
                   phase, ops, last>>

\* the environment puts into the saved file, on its k-th entity, a
\* component of a type that cannot be spawned
TamperFile(k) ==
    /\ file.kind = "scene"
    /\ ops < MaxOps
    /\ faults < MaxFaults
    /\ k \in DOMAIN file.scene
    /\ faults' = faults + 1
    /\ file' = [file EXCEPT !.scene[k].components = Insert(@, "Opaque", 0)]
    /\ UNCHANGED <<sched, world, resources, nextId, input, saveFilter, loadMapper, loaded,
                   phase, ops, last>>

Next ==
    \/ \E output \in SaveOutputs, fail \in Failures :
          /\ output = "Drop" => fail = "none"
          /\ output = "Stream" => fail # "dir"
          /\ Save(output, fail)
    \/ \E order \in Orders(UnloadQuery(world)) : Load(order)
    \/ PostLoad
    \/ \E kind \in {"garbage", "unknown_type"} : CorruptFile(kind)
    \/ \E k \in 1..MaxTree : TamperFile(k)

Spec == Init /\ [][Next]_vars

----------------------------------------------------------------------------
(* What the last invocation did, read from its record.                     *)

SavedOk == last.kind = "save" /\ last.result = "Ok"

LoadedOk == last.kind = "load" /\ last.result = "Ok"

\* the load read a scene, so the stages after the read ran
UnloadRan == last.kind = "load" /\ "unload" \in Range(last.steps)

\* the saved ids of the entities of a scene
SceneIds(scene) == {scene[k].entity : k \in DOMAIN scene}

\* the entities the load put into the world
Spawned == (DOMAIN world) \ (DOMAIN last.unloaded)

\* the types whose data a save and a load carry over as it is
RoundTripType(t) ==
    /\ t \in Registered
    /\ SceneFilter_is_allowed(input.components, t)
    /\ \A i \in DOMAIN input.mapper : input.mapper[i].to # t
    /\ \A i \in DOMAIN loadMapper :
          loadMapper[i].from # t /\ loadMapper[i].to # t

\* v2 is v with each reference into S replaced by its image under m
Remapped(m, S, t, v, v2) ==
    IF t = "Children"
    THEN /\ Len(v2) = Len(v)
         /\ \A i \in DOMAIN v : v[i] \in S => v2[i] = m[v[i]]
    ELSE IF t \in RefTypes
         THEN v \in S => v2 = m[v]
         ELSE v2 = v

\* the entities of w reached from roots through Children
RECURSIVE Descendants(_, _)
Descendants(w, roots) ==
    LET more == {c \in DOMAIN w :
                    \E p \in roots : Has(w[p], "Children")
                                     /\ c \in Range(w[p]["Children"])}
    IN  IF more \subseteq roots THEN roots
        ELSE Descendants(w, roots \cup more)

\* the saved ids a scene refers to that are not entities of the scene
DanglingTargets(scene) ==
    UNION {Targets(t, scene[k].components[t]) :
              <<k, t>> \in {x \in (DOMAIN scene) \X RefTypes :
                               Has(scene[x[1]].components, x[2])}}
    \ SceneIds(scene)

\* every component of the scene is of a type that can be spawned
Spawnable(scene) ==
    \A k \in DOMAIN scene : \A t \in ReflectedOnly : ~Has(scene[k].components, t)

\* rule i of mapper shares neither of its types with another rule
IndependentRule(mapper, i) ==
    /\ mapper[i].from # mapper[i].to
    /\ \A j \in (DOMAIN mapper) \ {i} :
          {mapper[j].from, mapper[j].to} \cap {mapper[i].from, mapper[i].to} = {}

----------------------------------------------------------------------------
(* The claims.                                                             *)

\* C1: after a save of the selected entities S and a successful load of that
\* file, the entities the load spawned are the images of S under the entity
\* map, one for each; each carries the serializable data its source carried,
\* and each reference whose target is in S points at the image of the target.
RoundTrip ==
    LoadedOk =>
        LET S == DOMAIN last.source
            m == last.entity_map
        IN  /\ S \subseteq DOMAIN m
            /\ \A a, b \in S : m[a] = m[b] => a = b
            /\ {m[s] : s \in S} = Spawned
            /\ \A s \in S : \A t \in ComponentTypes :
                  RoundTripType(t) =>
                     /\ Has(world[m[s]], t) <=> Has(last.source[s], t)
                     /\ Has(last.source[s], t) =>
                           Remapped(m, S, t, last.source[s][t], world[m[s]][t])

\* a load brought back a parent and its child, both saved, with data
RoundTripWitness ==
    /\ LoadedOk
    /\ \E s \in DOMAIN last.source :
          /\ Has(last.source[s], "ChildOf")
          /\ last.source[s]["ChildOf"] \in DOMAIN last.source
          /\ last.source[s]["ChildOf"] # s
          /\ Has(world[last.entity_map[s]], "ChildOf")

\* C2: a load whose read fails (file missing, not RON, or RON the scene
\* deserializer rejects) does not run the unload and leaves the world as it
\* was.
BadFileKeepsWorld ==
    (last.kind = "load" /\ last.result \in {"Io", "De", "Ron"}) =>
        /\ world = last.before
        /\ last.unloaded = last.before
        /\ "unload" \notin Range(last.steps)

\* a load failed on a corrupt file while marked entities were alive
BadFileWitness ==
    /\ last.kind = "load"
    /\ last.result \in {"De", "Ron"}
    /\ \E e \in DOMAIN world : Has(world[e], "Save")

\* C3: after a successful save no entity carries a component of the output
\* type of a mapper rule unless it carried one before the save.
MapperNonLeak ==
    SavedOk =>
        \A e \in DOMAIN world : \A i \in DOMAIN input.mapper :
            Has(world[e], input.mapper[i].to) =>
               /\ e \in DOMAIN last.before
               /\ Has(last.before[e], input.mapper[i].to)

\* a save mapped a component of a selected entity that had no surrogate
MapperNonLeakWitness ==
    /\ SavedOk
    /\ \E e \in last.entities : \E i \in DOMAIN input.mapper :
          /\ Has(last.before[e], input.mapper[i].from)
          /\ ~Has(last.before[e], input.mapper[i].to)
          /\ \E k \in DOMAIN last.scene :
                /\ last.scene[k].entity = e
                /\ Has(last.scene[k].components, input.mapper[i].to)

\* C4: after a save every entity has, for every component type, the
\* component it had before the save, entities that already carried a
\* mapper's output type included.
SaveRestoresWorld ==
    last.kind = "save" => world = last.before

\* C5: after a successful load with a rule T -> U that shares no type with
\* another rule, every loaded entity whose scene data had T carries U with
\* the transform of that T and does not carry T.
LoadMapperConsumes ==
    LoadedOk =>
        \A i \in DOMAIN loadMapper :
            IndependentRule(loadMapper, i) =>
                \A k \in DOMAIN last.scene :
                    LET c == last.scene[k].components
                        e == last.entity_map[last.scene[k].entity]
                        T == loadMapper[i].from
                        U == loadMapper[i].to
                    IN  Has(c, T) =>
                           /\ e \in DOMAIN world
                           /\ Has(world[e], U)
                           /\ world[e][U] = map_component(c[T])
                           /\ ~Has(world[e], T)

\* a load mapped the surrogate of a scene entity
LoadMapperWitness ==
    /\ LoadedOk
    /\ \E i \in DOMAIN loadMapper :
          /\ IndependentRule(loadMapper, i)
          /\ \E k \in DOMAIN last.scene :
                Has(last.scene[k].components, loadMapper[i].from)

\* C6: a load of a scene (of components that can be spawned) that refers
\* to an entity the scene does not hold succeeds and emits OnLoaded; every scene entity is spawned; each list of
\* children keeps its length; and what stands for the missing target is not
\* an entity of the world, so it carries no component.
DanglingReferenceLoads ==
    (UnloadRan /\ Spawnable(last.scene) /\ DanglingTargets(last.scene) # {}) =>
        LET m == last.entity_map
            ids == SceneIds(last.scene)
        IN  /\ last.result = "Ok"
            /\ last.events = <<"OnLoaded">>
            /\ \A k \in DOMAIN last.scene :
                  LET c == last.scene[k].components
                      id == last.scene[k].entity
                  IN  /\ id \in DOMAIN m
                      /\ m[id] \in DOMAIN world
                      /\ \A t \in RefTypes :
                            Has(c, t) =>
                               /\ Has(world[m[id]], t)
                               /\ t = "Children" =>
                                     /\ Len(world[m[id]][t]) = Len(c[t])
                                     /\ \A j \in DOMAIN c[t] :
                                           c[t][j] \notin ids =>
                                              world[m[id]][t][j] \notin DOMAIN world
                               /\ (t # "Children" /\ c[t] \notin ids) =>
                                     world[m[id]][t] \notin DOMAIN world

\* a parent was loaded whose child the scene does not hold, while an
\* entity of the old world is still alive
DanglingWitness ==
    /\ UnloadRan
    /\ Spawnable(last.scene)
    /\ \E k \in DOMAIN last.scene :
          /\ Has(last.scene[k].components, "Children")
          /\ \E j \in DOMAIN last.scene[k].components["Children"] :
                last.scene[k].components["Children"][j] \notin SceneIds(last.scene)
    /\ \E k \in DOMAIN last.scene :
          /\ Has(last.scene[k].components, "FooBar")
          /\ last.scene[k].components["FooBar"] \notin SceneIds(last.scene)
          /\ last.scene[k].components["FooBar"] \in DOMAIN last.unloaded

\* C7: a scene holds no component of a type the component filter excludes,
\* and holds every other serializable component of the selected entities.
ComponentFilterCorrect ==
    last.kind = "save" =>
        \A k \in DOMAIN last.scene :
            LET c == last.scene[k].components
                e == last.scene[k].entity
            IN  \A t \in ComponentTypes :
                   IF SceneFilter_is_allowed(input.components, t)
                   THEN (t \in Registered /\ Has(last.before[e], t)) => Has(c, t)
                   ELSE ~Has(c, t)

\* a save left out an excluded component of an entity and kept another
ComponentFilterWitness ==
    /\ SavedOk
    /\ \E k \in DOMAIN last.scene : \E t, u \in Registered :
          /\ ~SceneFilter_is_allowed(input.components, t)
          /\ Has(last.before[last.scene[k].entity], t)
          /\ SceneFilter_is_allowed(input.components, u)
          /\ Has(last.scene[k].components, u)

\* the entities the unload removed
Unloaded == (DOMAIN last.before) \ (DOMAIN last.unloaded)

\* the unload removed the marked entities and their descendants, and
\* did not fail
UnloadRemovesMarked ==
    /\ ~last.panicked
    /\ Unloaded = Descendants(last.before, UnloadQuery(last.before))
    /\ (DOMAIN last.unloaded) \subseteq DOMAIN world

\* C8 as stated: the unload removes the entities carrying Save or Unload
\* and their descendants, does not fail on one already removed, and every
\* other entity survives the load with its components unchanged.
UnloadExact ==
    UnloadRan =>
        /\ UnloadRemovesMarked
        /\ \A e \in DOMAIN last.unloaded : world[e] = last.before[e]

\* C8: the unload removes the entities carrying Save or Unload and their
\* descendants, does not fail on one already removed, and every other
\* entity survives the load with its components unchanged, but for its
\* Children, which lose the removed entities (and go when none is left).
UnloadExactButChildren ==
    UnloadRan =>
        /\ UnloadRemovesMarked
        /\ \A e \in DOMAIN last.unloaded :
              LET kept == IF Has(last.before[e], "Children")
                          THEN SelectSeq(last.before[e]["Children"],
                                         LAMBDA c : c \notin Unloaded)
                          ELSE <<>>
              IN  /\ Remove(world[e], "Children") = Remove(last.before[e], "Children")
                  /\ Has(world[e], "Children") <=> kept # <<>>
                  /\ Has(world[e], "Children") => world[e]["Children"] = kept

\* an unload removed a marked parent and its marked child, and left the
\* unmarked parent of that parent
UnloadWitness ==
    /\ UnloadRan
    /\ \E e \in DOMAIN last.unloaded :
          /\ Has(last.before[e], "Children")
          /\ \E c \in Range(last.before[e]["Children"]) : c \in Unloaded
    /\ \E p, c \in UnloadQuery(last.before) :
          /\ p # c
          /\ Has(last.before[p], "Children")
          /\ c \in Range(last.before[p]["Children"])

\* C9: after a successful load every live entity that is a value of the
\* entity map carries Save.
LoadedCarrySave ==
    LoadedOk =>
        \A k \in DOMAIN last.entity_map :
            last.entity_map[k] \in DOMAIN world =>
               Has(world[last.entity_map[k]], "Save")

\* a load spawned an entity of a scene, which holds no Save
LoadedCarrySaveWitness ==
    /\ LoadedOk
    /\ last.scene # <<>>
    /\ \A k \in DOMAIN last.scene : ~Has(last.scene[k].components, "Save")
    /\ \E k \in DOMAIN last.entity_map : last.entity_map[k] \in DOMAIN world

\* C10: every save emits one OnSave: Ok when no step failed, and the
\* error of the failed step otherwise.
OneOnSave ==
    last.kind = "save" =>
        /\ Len(last.events) = 1
        /\ (last.events[1] = "Ok") <=> (last.fault = "none")
        /\ last.fault \in {"dir", "write"} => last.events[1] = "Io"
        /\ last.fault = "serialize" => last.events[1] = "Ron"

\* a save failed at one of its steps
OneOnSaveWitness ==
    /\ last.kind = "save"
    /\ last.fault # "none"
    /\ last.entities # {}

\* C11: every load emits one terminal result that consumers observe:
\* OnLoaded (with the Loaded resource) when it succeeds, its LoadError when
\* a step fails.
LoadEmitsOneResult ==
    last.kind = "load" =>
        /\ Len(last.events) = 1
        /\ last.result = "Ok" => last.events[1] = "OnLoaded"
        /\ last.result # "Ok" => last.events[1] = last.result

\* C12: when a save fails at serialize (Ron) or at the write (Io), no entity
\* carries a mapper output component that it did not carry before the save.
FailedSaveLeavesNoSurrogate ==
    (last.kind = "save" /\ last.fault \in {"serialize", "write"}) =>
        /\ last.result = (IF last.fault = "serialize" THEN "Ron" ELSE "Io")
        /\ \A e \in DOMAIN world : \A i \in DOMAIN input.mapper :
              Has(world[e], input.mapper[i].to) =>
                 Has(last.before[e], input.mapper[i].to)

\* a save that mapped a component of a selected entity failed at serialize
\* or at the write
FailedSaveWitness ==
    /\ last.kind = "save"
    /\ last.fault \in {"serialize", "write"}
    /\ \E e \in last.entities : \E i \in DOMAIN input.mapper :
          /\ Has(last.before[e], input.mapper[i].from)
          /\ ~Has(last.before[e], input.mapper[i].to)
          /\ \E k \in DOMAIN last.scene :
                /\ last.scene[k].entity = e
                /\ Has(last.scene[k].components, input.mapper[i].to)

\* a step of the behaviour is a save whose serialize fails
EncodeFails ==
    /\ ops' = ops + 1
    /\ last'.kind = "save"
    /\ last'.fault = "serialize"

\* C13 as stated: a save whose serialize fails ends with the codec error
\* and has changed nothing at the destination, neither the file nor its
\* directory, for a file and for a stream.
EncodeFailureWritesNothing ==
    [][EncodeFails => (last'.result = "Ron" /\ file' = file)]_vars

\* C13: a save whose serialize fails ends with the codec error and has
\* written no byte: the content at the destination is as it was, and a
\* stream is untouched; for a file the parent directory may have been made.
EncodeFailureWritesNoByte ==
    [][EncodeFails =>
          /\ last'.result = "Ron"
          /\ "write" \notin Range(last'.steps)
          /\ file'.kind = file.kind
          /\ file'.scene = file.scene
          /\ last'.output = "Stream" => file' = file]_vars

\* a save into a file failed at serialize after it made the directory, and
\* the file of an earlier save is still there
EncodeFailureWitness ==
    /\ last.kind = "save"
    /\ last.fault = "serialize"
    /\ last.output = "File"
    /\ file.dir
    /\ file.kind = "scene"
    /\ file.scene # <<>>

\* the entities the unload removed are the marked ones and their
\* descendants, and none of them is back
UnloadedStayRemoved ==
    /\ Unloaded = Descendants(last.before, UnloadQuery(last.before))
    /\ Unloaded \cap DOMAIN world = {}

LoadFails ==
    /\ ops' = ops + 1
    /\ last'.kind = "load"
    /\ last'.result # "Ok"

\* C15: once a stage of a load returns an error every later stage passes
\* it on and leaves the store alone: after a failed read nothing has run
\* and the world is as before; after a failed instantiation the world is as
\* the instantiation left it; in both no Loaded is inserted, no OnLoaded
\* is triggered and no stage runs a second time.
ErrorShortCircuit ==
    [][LoadFails =>
          /\ loaded' = loaded
          /\ last'.events = <<>>
          /\ last'.result \in {"Io", "De", "Ron"} =>
                /\ world' = world
                /\ last'.steps = <<"read", "insert_loaded">>
          /\ last'.result = "Scene" =>
                /\ world' = last'.written
                /\ last'.steps = <<"read", "unload", "write_to_world",
                                   "insert_loaded">>
          /\ last'.result \in {"Io", "De", "Ron", "Scene"}]_vars

\* a load failed at the instantiation after it had spawned an entity
ErrorShortCircuitWitness ==
    /\ last.kind = "load"
    /\ last.result = "Scene"
    /\ Spawned # {}
    /\ \A e \in Spawned : ~Has(world[e], "Save")

\* the saved ids the Loaded resource maps to something that is not an entity
DeadKeys ==
    {k \in DOMAIN loaded.entity_map : loaded.entity_map[k] \notin DOMAIN world}

\* C16: a load of a scene with references to ids that are not scene
\* entities still finishes, and the Loaded resource shows them: its map has
\* one entry for each such id beside those of the scene entities, and the
\* keys it maps to a non-entity are exactly those ids.
DanglingObservable ==
    (LoadedOk /\ loaded.present) =>
        /\ last.events = <<"OnLoaded">>
        /\ loaded.entity_map = last.entity_map
        /\ DeadKeys = DanglingTargets(last.scene)
        /\ Cardinality(DOMAIN loaded.entity_map) =
              Len(last.scene) + Cardinality(DanglingTargets(last.scene))

\* a load of a scene with a dangling reference delivered its Loaded resource
DanglingObservableWitness ==
    /\ LoadedOk
    /\ loaded.present
    /\ last.scene # <<>>
    /\ DanglingTargets(last.scene) # {}

\* the entities of the world before the save that the query filter of the
\* save event matches
QueryMatched ==
    {e \in DOMAIN last.before :
        saveFilter = "With<Save>" => Has(last.before[e], "Save")}

\* the entities the EntityFilter of the save input passes
FilterPassed ==
    {e \in DOMAIN last.before :
        \/ input.entities.kind = "Allow" /\ e \in input.entities.set
        \/ input.entities.kind = "Block" /\ e \notin input.entities.set}

\* C17: the entities of the scene of a save are the entities that match
\* the query filter of the event and pass the EntityFilter, each once;
\* Allow of nothing selects nothing and Block of nothing selects every
\* entity the query filter matches.
SelectionCorrect ==
    last.kind = "save" =>
        /\ SceneIds(last.scene) = QueryMatched \cap FilterPassed
        /\ Len(last.scene) = Cardinality(QueryMatched \cap FilterPassed)
        /\ input.entities = [kind |-> "Allow", set |-> {}] => last.scene = <<>>
        /\ input.entities = [kind |-> "Block", set |-> {}] =>
              SceneIds(last.scene) = QueryMatched

\* a save under Allow of one entity took it and left out another entity
\* that the query filter matches
SelectionWitness ==
    /\ last.kind = "save"
    /\ input.entities.kind = "Allow"
    /\ SceneIds(last.scene) = input.entities.set
    /\ input.entities.set # {}
    /\ QueryMatched \ SceneIds(last.scene) # {}

\* the resource types the save input includes explicitly
IncludedResources ==
    IF input.resources.kind = "Allowlist" THEN input.resources.set ELSE {}

\* the component types the save input excludes explicitly
ExcludedComponents ==
    IF input.components.kind = "Denylist" THEN input.components.set ELSE {}

\* C18: in the scene of a save a component type that was excluded is on no
\* entity and every other registered component of a selected entity is
\* there; a registered resource is in the scene exactly when its type was
\* included and the world holds it, no other resource is, and under the
\* default input the scene has no resource.
FilterPrecedence ==
    last.kind = "save" =>
        /\ \A k \in DOMAIN last.scene : \A t \in Registered :
              Has(last.scene[k].components, t) <=>
                 /\ t \notin ExcludedComponents
                 /\ \/ Has(last.before[last.scene[k].entity], t)
                    \/ \E i \in DOMAIN input.mapper :
                          /\ input.mapper[i].to = t
                          /\ Has(last.before[last.scene[k].entity],
                                 input.mapper[i].from)
        /\ \A r \in RegisteredResources :
              r \in last.resources <=> (r \in IncludedResources /\ r \in resources)
        /\ last.resources \subseteq RegisteredResources
        /\ input.resources = SaveInput_default.resources => last.resources = {}

\* a save took the included resource of the world into the scene and left
\* out the excluded component of the entity
FilterPrecedenceWitness ==
    /\ SavedOk
    /\ "Bar" \in last.resources
    /\ "EventTriggered" \in resources
    /\ \E k \in DOMAIN last.scene :
          /\ Has(last.before[last.scene[k].entity], "SerializedFoo")
          /\ ~Has(last.scene[k].components, "SerializedFoo")

\* a step of the behaviour is a successful save that follows a successful
\* save with nothing in between that touches the world
SaveAfterSave ==
    /\ last.kind = "save"
    /\ last.result = "Ok"
    /\ ops' = ops + 1
    /\ last'.kind = "save"
    /\ last'.result = "Ok"

\* C19: the second of two consecutive saves of a world under the same
\* configuration selects the same entities and produces the same scene as
\* the first.
ReSaveIdentical ==
    [][SaveAfterSave =>
          /\ last'.entities = last.entities
          /\ last'.scene = last.scene
          /\ last'.resources = last.resources]_vars

\* a step of the behaviour is a load
LoadRuns ==
    /\ ops' = ops + 1
    /\ last'.kind = "load"

\* C20: between updates the world holds no Loaded resource; a load finds
\* none, and inserts one, with its entity map, exactly when it succeeds;
\* the resource then stays as it is through the rest of the update and is
\* removed, whole, when the update ends.
LoadedLifecycle ==
    /\ [](phase = "idle" => ~loaded.present)
    /\ [][/\ LoadRuns =>
                /\ ~loaded.present
                /\ phase' = "PostLoad"
                /\ loaded'.present <=> last'.result = "Ok"
                /\ loaded'.present => loaded'.entity_map = last'.entity_map
          /\ loaded.present =>
                \/ loaded' = loaded /\ phase' = "PostLoad"
                \/ ~loaded'.present /\ phase' = "idle"]_vars

\* the update of a successful load is past the Load set, and the Loaded
\* resource with the map of that load is in the world
LoadedLifecycleWitness ==
    /\ phase = "PostLoad"
    /\ loaded.present
    /\ LoadedOk
    /\ DOMAIN loaded.entity_map # {}

----------------------------------------------------------------------------
\* the map sends no two saved ids to the same id
Injective(map) ==
    \A j, k \in DOMAIN map : map[j] = map[k] => j = k

\* the entities this load created: alive now, not alive before the load
CreatedByLoad == (DOMAIN world) \ (DOMAIN last.before)

\* C21 as stated: in the Loaded resource of a successful load the keys of
\* the map are exactly the saved ids of the scene entities, the map is
\* injective, and every value is a live entity this load created.
EntityMapExact ==
    (LoadedOk /\ loaded.present) =>
        /\ DOMAIN loaded.entity_map = SceneIds(last.scene)
        /\ Injective(loaded.entity_map)
        /\ \A k \in DOMAIN loaded.entity_map :
              loaded.entity_map[k] \in CreatedByLoad

\* C21: in the Loaded resource of a successful load the map holds nothing
\* of an earlier load, its keys are the saved ids of the scene entities
\* and the saved ids the scene refers to without holding them, it is
\* injective, every scene entity's value is a live entity this load
\* created, and every other value is an id of no entity, before or after.
EntityMapWellFormed ==
    (LoadedOk /\ loaded.present) =>
        /\ DOMAIN loaded.entity_map =
              SceneIds(last.scene) \cup DanglingTargets(last.scene)
        /\ Injective(loaded.entity_map)
        /\ \A k \in SceneIds(last.scene) :
              loaded.entity_map[k] \in CreatedByLoad
        /\ \A k \in DanglingTargets(last.scene) :
              loaded.entity_map[k] \notin (DOMAIN world) \cup (DOMAIN last.before)

\* a load delivered a map for a scene with an entity whose saved id is the
\* id of an entity that outlived the unload, and with a reference to an id
\* the scene does not hold
EntityMapWitness ==
    /\ LoadedOk
    /\ loaded.present
    /\ SceneIds(last.scene) \cap DOMAIN last.unloaded # {}
    /\ DanglingTargets(last.scene) # {}

----------------------------------------------------------------------------
(* The mapper on its own: one entity, a SceneMapper built by registration, *)
(* and the three passes of the mapper, beside a save of the entity.        *)

\* the most rules registered in one mapper
MaxRules == 2

\* the data components an entity may carry
MapperBundles ==
    {a @@ b @@ c : a \in Opt("Foo", 0..1),
                   b \in Opt("SerializedFoo", 0..1),
                   c \in Opt("Baz", 0..1)}

\* the rules that may be registered: from one data type to another
MapperRules ==
    {Rule(x[1], x[2]) : x \in {y \in DataTypes \X DataTypes : y[1] # y[2]}}

MapperInit ==
    /\ sched = NoSchedule
    /\ world \in [{1} -> MapperBundles]
    /\ resources = {}
    /\ nextId = 2
    /\ file = NoFile
    /\ input = SaveInput_default
    /\ saveFilter = "()"
    /\ loadMapper = <<>>
    /\ loaded = NoResource
    /\ phase = "idle"
    /\ ops = 0
    /\ faults = 0
    /\ last = NoInvocation

\* the application registers a rule while it builds the mapper, before
\* the mapper is used: SaveWorld::map_component
MapComponent(rule) ==
    /\ ops = 0
    /\ Len(input.mapper) < MaxRules
    /\ input' = SaveWorld_map_component(input, rule)
    /\ UNCHANGED <<sched, world, resources, nextId, file, saveFilter, loadMapper,
                   loaded, phase, ops, faults, last>>

\* one pass of the mapper over the entity
MapperPass(kind, components) ==
    /\ ops < MaxOps
    /\ ops' = ops + 1
    /\ world' = [world EXCEPT ![1] = components]
    /\ last' = [NoInvocation EXCEPT !.kind = kind, !.before = world]
    /\ UNCHANGED <<sched, resources, nextId, file, input, saveFilter, loadMapper,
                   loaded, phase, faults>>

\* SceneMapper::apply on the entity
MapperApply == MapperPass("apply", SceneMapper_apply(input.mapper, world[1]))

\* SceneMapper::replace on the entity
MapperReplace ==
    MapperPass("replace", SceneMapper_replace(input.mapper, world[1]))

\* SceneMapper::undo on the entity
MapperUndo == MapperPass("undo", SceneMapper_undo(input.mapper, world[1]))

MapperNext ==
    \/ \E rule \in MapperRules : MapComponent(rule)
    \/ MapperApply
    \/ MapperReplace
    \/ MapperUndo
    \/ Save("Drop", "none")

MapperSpec == MapperInit /\ [][MapperNext]_vars

\* the rules of the mapper for input type t, by position
RulesFor(t) == {i \in DOMAIN input.mapper : input.mapper[i].from = t}

\* the output types that the last pass attached to the entity
Attached == (DOMAIN world[1]) \ (DOMAIN last.before[1])

----------------------------------------------------------------------------
\* step x comes before step y in the sequence, when both are in it
Before(steps, x, y) ==
    \A i, j \in DOMAIN steps : (steps[i] = x /\ steps[j] = y) => i < j

\* the steps of the output of a save
OutputSteps == {"create_dir", "serialize", "write"}

\* C26 as stated: the steps of a save come in the order Select, Pre-map,
\* Build, Encode, Write, Post-unmap, Finish: the undo of the mapper comes
\* after the bytes are written.
UnmapAfterWrite ==
    last.kind = "save" =>
        /\ Before(last.steps, "filter", "before_serialize")
        /\ Before(last.steps, "before_serialize", "build")
        /\ Before(last.steps, "build", "serialize")
        /\ Before(last.steps, "serialize", "write")
        /\ Before(last.steps, "write", "after_serialize")
        /\ Before(last.steps, "after_serialize", "OnSave")

\* C26: the steps of a save come in the order Select, Pre-map, Build,
\* Post-unmap, then the output (directory, Encode, Write) as far as it
\* gets, then Finish.  The snapshot is built after apply ran on every
\* selected entity: it holds the surrogate of each.  The undo does not wait
\* for the output: it has run on every selected entity also when the
\* output failed.
StepOrder ==
    last.kind = "save" =>
        LET s == last.steps
        IN  /\ SubSeq(s, 1, 4) =
                  <<"filter", "before_serialize", "build", "after_serialize">>
            /\ s[Len(s)] = "OnSave"
            /\ \A i \in 5..(Len(s) - 1) : s[i] \in OutputSteps
            /\ Before(s, "create_dir", "serialize")
            /\ Before(s, "serialize", "write")
            /\ "write" \in Range(s) => "serialize" \in Range(s)
            /\ \A k \in DOMAIN last.scene :
                  LET e == last.scene[k].entity
                  IN  \A i \in DOMAIN input.mapper :
                         (/\ Has(last.before[e], input.mapper[i].from)
                          /\ SceneFilter_is_allowed(input.components,
                                                    input.mapper[i].to)
                          /\ input.mapper[i].to \in Registered)
                         => /\ Has(last.scene[k].components, input.mapper[i].to)
                            /\ last.scene[k].components[input.mapper[i].to] =
                                  map_component(
                                     last.before[e][input.mapper[i].from])
            /\ \A e \in last.entities : \A i \in DOMAIN input.mapper :
                  ~Has(world[e], input.mapper[i].to)

\* a save into a file wrote the surrogate of a selected entity
StepOrderWitness ==
    /\ SavedOk
    /\ last.output = "File"
    /\ "write" \in Range(last.steps)
    /\ input.mapper # <<>>
    /\ \E e \in last.entities : Has(last.before[e], input.mapper[1].from)

----------------------------------------------------------------------------
\* the output types of the rules of the mapper
Outputs == {input.mapper[i].to : i \in DOMAIN input.mapper}

\* the components are the same on every type but those of S
SameBut(S, c1, c2) ==
    /\ (DOMAIN c1) \ S = (DOMAIN c2) \ S
    /\ \A t \in (DOMAIN c1) \ S : c1[t] = c2[t]

----------------------------------------------------------------------------
\* the last pass was apply or replace of a mapper of n rules
Passed(n) == last.kind \in {"apply", "replace"} /\ Len(input.mapper) = n

\* C28: apply and replace of a rule T -> U on an entity that does not carry
\* T attach nothing and remove nothing, and the pass goes on: the rules
\* after it still run on the entity.  A mapper none of whose inputs is on
\* the entity leaves the entity as it was; when only the first rule's
\* input is missing the second rule attaches its output and touches no
\* type but its own two.
MissingSourceSkipped ==
    /\ (Passed(1) /\ ~Has(last.before[1], input.mapper[1].from)) =>
          world[1] = last.before[1]
    /\ (Passed(2) /\ ~Has(last.before[1], input.mapper[1].from)) =>
          LET T == input.mapper[2].from
              U == input.mapper[2].to
          IN  IF Has(last.before[1], T)
              THEN /\ Has(world[1], U)
                   /\ world[1][U] = map_component(last.before[1][T])
                   /\ SameBut({T, U}, last.before[1], world[1])
                   /\ Has(world[1], T) <=> last.kind = "apply"
              ELSE world[1] = last.before[1]

\* replace skipped a first rule whose input was missing and ran the second
MissingSourceWitness ==
    /\ Passed(2)
    /\ last.kind = "replace"
    /\ ~Has(last.before[1], input.mapper[1].from)
    /\ Has(last.before[1], input.mapper[2].from)
    /\ Has(world[1], input.mapper[2].to)
    /\ ~Has(world[1], input.mapper[2].from)

----------------------------------------------------------------------------
\* apply ran a mapper of two rules on an entity that carried nothing but
\* the component a of type A
AppliedTo(A) ==
    /\ Passed(2)
    /\ last.kind = "apply"
    /\ DOMAIN last.before[1] = {A}

\* C29: the rules run in registration order, each on the components the
\* entity carries when the rule runs.  On an entity carrying only A = a,
\* apply of [A -> B, B -> C] attaches B = f(a) and C = f(f(a)); apply of
\* [B -> C, A -> B] attaches B = f(a) and no C.  A rule reads only its own
\* input type: apply of [A -> B, A -> C] attaches C = f(a), never f(f(a)).
RegistrationOrder ==
    \A A, B, C \in DataTypes :
       (AppliedTo(A) /\ Cardinality({A, B, C}) = 3) =>
          LET a == last.before[1][A]
          IN  /\ input.mapper = <<Rule(A, B), Rule(B, C)>> =>
                    world[1] = (A :> a) @@ (B :> map_component(a))
                               @@ (C :> map_component(map_component(a)))
              /\ input.mapper = <<Rule(B, C), Rule(A, B)>> =>
                    world[1] = (A :> a) @@ (B :> map_component(a))
              /\ input.mapper = <<Rule(A, B), Rule(A, C)>> =>
                    world[1] = (A :> a) @@ (B :> map_component(a))
                               @@ (C :> map_component(a))

\* apply of a chain of two rules attached the surrogate of the surrogate
RegistrationOrderWitness ==
    \E A, B, C \in DataTypes :
       /\ AppliedTo(A)
       /\ input.mapper = <<Rule(A, B), Rule(B, C)>>
       /\ Has(world[1], C)
       /\ world[1][C] = map_component(map_component(last.before[1][A]))

----------------------------------------------------------------------------
(* The schedule: pipelines installed as systems of PreUpdate.  An update   *)
(* runs the First schedule (the update of the event buffers), then the     *)
(* sets LoadSystem::Load, LoadSystem::PostLoad and SaveSystem::Save.       *)
(* phase names the set that runs next, "idle" between updates.             *)

\* the updates of one behaviour
MaxUpdates == 2
\* the request events sent in one behaviour
MaxEvents == 3
\* the request resources inserted in one behaviour
MaxRequests == 2

\* the paths a request names: the save file and another file
Paths == {1, 2}

\* the sets of PreUpdate with Save ordered first
SetOrder_save_first == <<"Save", "Load", "PostLoad">>

\* LoadPlugin: (Load, PostLoad).chain().before(SaveSystem::Save)
SetOrder == <<"Load", "PostLoad", "Save">>

\* the set that runs after the given set, "idle" after the last
SetAfter(set) ==
    LET i == CHOOSE k \in 1..Len(SetOrder) : SetOrder[k] = set
    IN  IF i = Len(SetOrder) THEN "idle" ELSE SetOrder[i + 1]

\* a finish that leaves the request resource in the world
Pipeline_finish_kept(res, resource) == res

\* FileFromResource::finish / StreamFromResource::finish: the pipeline is
\* piped into remove_resource::<R>
Pipeline_finish(res, resource) == res \ {resource}

\* FileFromResource::clean / StreamFromResource::clean: remove_resource::<R>
Pipeline_clean(res, resource) == res \ {resource}

\* the file a path names
FileAt(path) == IF path = 1 THEN file ELSE sched.other

\* Events::update, run by the First schedule: the older buffer is dropped
Events_update(s) == [s EXCEPT !.a = s.b, !.b = <<>>]

\* the events the reader of the pipeline has not seen
Unread(s) == SelectSeq(s.a \o s.b, LAMBDA e : e.id > s.cursor)

\* events.read() followed by iter.next() and, for the warning, a second
\* iter.next(): each next() moves the reader past one event
read_first(s) ==
    LET u == Unread(s)
    IN  [some |-> u # <<>>,
         event |-> IF u # <<>> THEN u[1] ELSE [id |-> 0, path |-> 1, cycle |-> 0],
         cursor |-> IF u = <<>> THEN s.cursor
                    ELSE IF Len(u) >= 2 THEN u[2].id ELSE u[1].id]

\* the request of a pipeline in this update: whether it runs, on which
\* path, for which event, whether its source panics
Request(source, resource) ==
    IF source = "static" THEN [runs |-> TRUE, path |-> 1, event |-> 0]
    ELSE IF source = "resource"
    THEN [runs |-> resource \in resources, path |-> 1, event |-> 0]
    ELSE IF source = "event"
    THEN LET r == read_first(sched)
         IN  [runs |-> r.some, path |-> r.event.path, event |-> r.event.id]
    ELSE [runs |-> FALSE, path |-> 1, event |-> 0]

\* the schedule after a pipeline ran or was skipped: the reader moved, the
\* run logged, the file of the other path written
Scheduled(source, entry, other) ==
    [sched EXCEPT
        !.cursor = IF source = "event" THEN read_first(sched).cursor ELSE @,
        !.log = IF entry.kind = "none" THEN @ ELSE Append(@, entry),
        !.other = other]

\* a log entry: a set ran a pipeline in an update
Entry(kind, req, result, w) ==
    [kind |-> kind, update |-> sched.updates, event |-> req.event,
     path |-> req.path, result |-> result, world |-> w]

NoRequest == [runs |-> FALSE, path |-> 1, event |-> 0]

\* the worlds of the schedule: entities that carry the Save marker or not
UpdateWorlds ==
    UNION {[1..n -> {NoComponents, "Save" :> TRUE,
                     ("Save" :> TRUE) @@ ("SerializedFoo" :> 0)}]
           : n \in 0..MaxEntities}

\* the file that a save of the world w leaves
SavedFile(w) ==
    FileAfter(NoFile, w,
              save_on(w, {}, SaveInput_default, "With<Save>", "File", "none"),
              "none")

\* the pipelines installed: static files, request resources, request events
Installed ==
    {[NoSchedule EXCEPT !.load = "static", !.save = "static"],
     [NoSchedule EXCEPT !.load = "resource", !.save = "resource"],
     [NoSchedule EXCEPT !.load = "event"],
     [NoSchedule EXCEPT !.save = "event"]}

UpdateInit ==
    /\ sched \in Installed
    /\ world \in UpdateWorlds
    /\ file \in {NoFile} \cup
                {SavedFile(w) : w \in IF sched.load = "static" THEN UpdateWorlds
                                      ELSE {<<"Save" :> TRUE>>}}
    /\ resources = {}
    /\ nextId = Cardinality(DOMAIN world) + 1
    /\ input = SaveInput_default
    /\ saveFilter = "With<Save>"
    /\ loadMapper = <<>>
    /\ loaded = NoResource
    /\ phase = "idle"
    /\ ops = 0
    /\ faults = 0
    /\ last = NoInvocation

\* app.update() begins: First runs the update of the event buffers
BeginUpdate ==
    /\ phase = "idle"
    /\ sched.updates < MaxUpdates
    /\ sched' = [Events_update(sched) EXCEPT !.updates = @ + 1]
    /\ phase' = SetOrder[1]
    /\ UNCHANGED <<world, resources, nextId, file, input, saveFilter, loadMapper,
                   loaded, ops, faults, last>>

\* a request event is sent, between two updates (it belongs to the cycle of
\* the update to come) or in an update before the sets of PreUpdate run
SendEvent(path) ==
    /\ "event" \in {sched.save, sched.load}
    /\ phase \in {"idle", SetOrder[1]}
    /\ sched.count < MaxEvents
    /\ LET event == [id |-> sched.count + 1, path |-> path,
                      cycle |-> IF phase = "idle" THEN sched.updates + 1
                                ELSE sched.updates]
       IN  sched' = [sched EXCEPT !.count = @ + 1,
                                  !.sent = Append(@, event),
                                  !.b = Append(@, event)]
    /\ UNCHANGED <<world, resources, nextId, file, input, saveFilter, loadMapper,
                   loaded, phase, ops, faults, last>>

\* the application inserts a request resource between two updates
InsertRequest(resource) ==
    /\ phase = "idle"
    /\ sched.requests < MaxRequests
    /\ \/ resource = "SaveRequest" /\ sched.save = "resource"
       \/ resource = "LoadRequest" /\ sched.load = "resource"
    /\ resource \notin resources
    /\ resources' = resources \cup {resource}
    /\ sched' = [sched EXCEPT !.requests = @ + 1]
    /\ UNCHANGED <<world, nextId, file, input, saveFilter, loadMapper, loaded,
                   phase, ops, faults, last>>

\* LoadSystem::Load: the installed load pipeline, load(p).  The pipeline of
\* a request resource runs if the resource is there and removes it; that of
\* a request event has no run condition and unwraps the first event
LoadSet(order) ==
    LET req == Request(sched.load, "LoadRequest")
        r == load(FileAt(req.path), loadMapper, world, resources, nextId, order)
        fin == insert_loaded(r.marked, loaded)
    IN  /\ phase = "Load"
        /\ IF sched.load = "event" /\ ~req.runs
           THEN /\ phase' = "panicked"
                /\ UNCHANGED <<sched, world, resources, nextId, loaded, last>>
           ELSE /\ phase' = SetAfter("Load")
                /\ IF req.runs
                   THEN /\ world' = r.marked.world
                        /\ resources' = Pipeline_finish(r.marked.resources,
                                                        "LoadRequest")
                        /\ nextId' = r.marked.nextId
                        /\ loaded' = fin.resource
                        /\ last' = LoadInvocation(world, FileAt(req.path), r, fin)
                        /\ sched' = Scheduled(sched.load,
                                       Entry("load", req, last'.result,
                                             world'), sched.other)
                   ELSE UNCHANGED <<sched, world, resources, nextId, loaded,
                                    last>>
        /\ UNCHANGED <<file, input, saveFilter, loadMapper, ops, faults>>

\* LoadSystem::PostLoad: runs if the Loaded resource exists, and
\* remove_resource::<Loaded> is in it
PostLoadSet ==
    /\ phase = "PostLoad"
    /\ phase' = SetAfter("PostLoad")
    /\ IF loaded.present
       THEN /\ loaded' = remove_resource(loaded)
            /\ sched' = Scheduled("none",
                           Entry("postload", NoRequest, "Ok", world), sched.other)
       ELSE UNCHANGED <<sched, loaded>>
    /\ UNCHANGED <<world, resources, nextId, file, input, saveFilter, loadMapper,
                   ops, faults, last>>

\* SaveSystem::Save: the installed save pipeline, save_default().into(p).
\* The source yields an event or nothing; the event is triggered, save_on
\* runs, and the pipeline is cleaned
SaveSet(fail) ==
    LET req == Request(sched.save, "SaveRequest")
        r == save_on(world, resources, input, saveFilter, "File", fail)
        written == FileAfter(FileAt(req.path), world, r, fail)
    IN  /\ phase = "Save"
        /\ phase' = SetAfter("Save")
        /\ fail # "none" => (faults < MaxFaults /\ req.runs)
        /\ faults' = IF fail # "none" THEN faults + 1 ELSE faults
        /\ IF req.runs
           THEN /\ world' = r.world
                /\ resources' = Pipeline_clean(resources, "SaveRequest")
                /\ file' = IF req.path = 1 THEN written ELSE file
                /\ last' = SaveInvocation(world, r, "File", fail)
                /\ sched' = Scheduled(sched.save,
                               Entry("save", req, r.result, world'),
                               IF req.path = 1 THEN sched.other ELSE written)
           ELSE UNCHANGED <<sched, world, resources, file, last>>
        /\ UNCHANGED <<nextId, input, saveFilter, loadMapper, loaded, ops>>

UpdateNext ==
    \/ BeginUpdate
    \/ \E path \in Paths : SendEvent(path)
    \/ \E resource \in {"SaveRequest", "LoadRequest"} : InsertRequest(resource)
    \/ \E order \in Orders(UnloadQuery(world)) : LoadSet(order)
    \/ PostLoadSet
    \/ \E fail \in {"none", "write"} : SaveSet(fail)

UpdateSpec == UpdateInit /\ [][UpdateNext]_vars

----------------------------------------------------------------------------
\* the runs of the log of the given kind
Runs(kind) == {i \in DOMAIN sched.log : sched.log[i].kind = kind}

\* the request resources in the world
Outstanding == resources \cap {"SaveRequest", "LoadRequest"}

\* the step runs the set, and in it the pipeline of the kind
SetRuns(set, kind) ==
    /\ phase = set
    /\ phase' # set
    /\ Cardinality(Runs(kind)') = Cardinality(Runs(kind)) + 1

\* C25: a pipeline of a request resource runs in the step of its set if
\* and only if the request resource is in the world, and the resource is
\* not in the world after the step, whatever the result of the run; the
\* runs and the requests still in the world add up to the requests
\* inserted, so an update without a new request runs nothing.
ResourceRequestRunsOnce ==
    /\ [][/\ (sched.load = "resource" /\ phase = "Load") =>
                /\ SetRuns("Load", "load") <=> "LoadRequest" \in resources
                /\ "LoadRequest" \notin resources'
          /\ (sched.save = "resource" /\ phase = "Save") =>
                /\ SetRuns("Save", "save") <=> "SaveRequest" \in resources
                /\ "SaveRequest" \notin resources']_vars
    /\ [](sched.load = "resource" =>
            Cardinality(Runs("load")) + Cardinality(Runs("save"))
               + Cardinality(Outstanding) = sched.requests)

\* a load request was served by a load that failed, the request is gone,
\* and a later update ran no load
ResourceRequestWitness ==
    /\ sched.load = "resource"
    /\ sched.updates = 2
    /\ phase = "idle"
    /\ "LoadRequest" \notin resources
    /\ Cardinality(Runs("load")) = 1
    /\ \A i \in Runs("load") : sched.log[i].update = 1
                               /\ sched.log[i].result # "Ok"

----------------------------------------------------------------------------
\* the runs of the log that a request event caused
EventRuns == {i \in DOMAIN sched.log : sched.log[i].event # 0}

\* the event that caused the run
EventOf(i) == sched.sent[sched.log[i].event]

\* C24 as stated: of the request events sent in one update cycle only the
\* first is processed: a run for an event is in the cycle of the event, the
\* event is the first sent in that cycle, the run uses its path, and a
\* cycle has at most one run.
OnlyFirstEventProcessed ==
    \A i \in EventRuns :
       /\ sched.log[i].update = EventOf(i).cycle
       /\ \A id \in 1..(EventOf(i).id - 1) :
             sched.sent[id].cycle # EventOf(i).cycle
       /\ sched.log[i].path = EventOf(i).path
       /\ \A j \in EventRuns : sched.log[j].update = sched.log[i].update => j = i

----------------------------------------------------------------------------
\* the place of a kind of run in an update
Rank(kind) == IF kind = "load" THEN 1 ELSE IF kind = "postload" THEN 2 ELSE 3

\* the runs of the log that are in the same update as run i
SameUpdate(i) == {j \in DOMAIN sched.log : sched.log[j].update = sched.log[i].update}

\* C30: in one update the load pipelines run before the PostLoad set and
\* both before the save pipelines; the PostLoad set runs in exactly the
\* updates in which a load left the Loaded resource; and a save in the
\* update of a successful load starts from the world as the load left it
\* and selects the entities that carry Save in it.
ScheduleOrder ==
    /\ \A i \in DOMAIN sched.log : \A j \in SameUpdate(i) :
          Rank(sched.log[i].kind) < Rank(sched.log[j].kind) => i < j
    /\ \A j \in Runs("postload") : \E i \in SameUpdate(j) :
          sched.log[i].kind = "load" /\ sched.log[i].result = "Ok"
    /\ \A i \in Runs("load") :
          (sched.log[i].result = "Ok" /\ i < Len(sched.log)) =>
             sched.log[i + 1].kind = "postload" /\ i + 1 \in SameUpdate(i)
    /\ \A i \in Runs("load") :
          (/\ sched.log[i].result = "Ok"
           /\ Len(sched.log) \in SameUpdate(i)
           /\ sched.log[Len(sched.log)].kind = "save") =>
             /\ last.kind = "save"
             /\ last.before = sched.log[i].world
             /\ last.entities = {e \in DOMAIN sched.log[i].world :
                                    Has(sched.log[i].world[e], "Save")}

\* an update ran a successful load, the PostLoad set and a save of the
\* loaded entities, in this order
ScheduleOrderWitness ==
    /\ SavedOk
    /\ Len(sched.log) >= 3
    /\ LET n == Len(sched.log)
       IN  /\ sched.log[n].kind = "save"
           /\ sched.log[n - 1].kind = "postload"
           /\ sched.log[n - 2].kind = "load"
           /\ sched.log[n - 2].result = "Ok"
           /\ {n - 2, n - 1} \subseteq SameUpdate(n)
           /\ last.entities # {}
           /\ last.entities \cap DOMAIN sched.log[n - 2].world = last.entities
           /\ \E e \in last.entities : e > MaxEntities

----------------------------------------------------------------------------
(* The invocations step by step.  save_on and the stages of load(p) take   *)
(* the world as &mut World and call one another synchronously, so the      *)
(* invocations under way form a stack: sched.stack, the innermost last.    *)
(* A frame is [kind, pc, terminal]: the step it runs next and whether its  *)
(* terminal step, the trigger of OnSave or OnLoaded, has begun.            *)

\* the invocations of one behaviour
MaxInvocations == 3

\* save_on: the steps of save_world, then world.trigger(OnSave(result))
SaveSteps ==
    <<"filter", "before_serialize", "build", "after_serialize", "output",
      "OnSave">>

\* load(p): the piped stages; insert_loaded inserts Loaded and triggers
\* OnLoaded
LoadSteps ==
    <<"read", "unload", "write_to_world", "insert_into_loaded", "insert_loaded">>

StepsOf(kind) == IF kind = "save" THEN SaveSteps ELSE LoadSteps

\* an executor that starts a system while another one runs
Exclusive_shared(stack) == TRUE

\* world: &mut World in save_on and in the stages of load(p): the executor
\* starts such a system or observer only when no other one runs
Exclusive(stack) == stack = <<>>

ExclusionInit ==
    /\ sched = NoSchedule
    /\ world = NoMap
    /\ resources = {}
    /\ nextId = 1
    /\ file = NoFile
    /\ input = SaveInput_default
    /\ saveFilter = "With<Save>"
    /\ loadMapper = <<>>
    /\ loaded = NoResource
    /\ phase = "idle"
    /\ ops = 0
    /\ faults = 0
    /\ last = NoInvocation

\* the variables an invocation step by step leaves alone
held ==
    <<world, resources, nextId, file, input, saveFilter, loadMapper, loaded,
      phase, faults>>

\* the schedule, or the flush of a queued trigger, starts a save or a load
Start(kind) ==
    /\ ops < MaxInvocations
    /\ Exclusive(sched.stack)
    /\ ops' = ops + 1
    /\ sched' = [sched EXCEPT !.stack =
                    Append(@, [kind |-> kind, pc |-> 1, terminal |-> FALSE])]
    /\ last' = [NoInvocation EXCEPT !.kind = kind]
    /\ UNCHANGED held

\* the innermost invocation runs its next step; the last one is the
\* terminal step, which begins with the trigger of the event
Step ==
    /\ sched.stack # <<>>
    /\ LET n == Len(sched.stack)
           top == sched.stack[n]
       IN  /\ ~top.terminal
           /\ sched' = [sched EXCEPT !.stack[n] =
                 IF top.pc = Len(StepsOf(top.kind))
                 THEN [top EXCEPT !.terminal = TRUE]
                 ELSE [top EXCEPT !.pc = @ + 1]]
           /\ last' = [NoInvocation EXCEPT
                          !.kind = top.kind,
                          !.steps = <<StepsOf(top.kind)[top.pc]>>]
    /\ UNCHANGED <<ops>>
    /\ UNCHANGED held

\* an observer of the event that the terminal step triggers starts a save
\* or a load on the world it is given
Observe(kind) ==
    /\ sched.stack # <<>>
    /\ sched.stack[Len(sched.stack)].terminal
    /\ ops < MaxInvocations
    /\ ops' = ops + 1
    /\ sched' = [sched EXCEPT !.stack =
                    Append(@, [kind |-> kind, pc |-> 1, terminal |-> FALSE])]
    /\ last' = [NoInvocation EXCEPT !.kind = kind]
    /\ UNCHANGED held

\* the trigger of the terminal step returns and the invocation ends
Return ==
    /\ sched.stack # <<>>
    /\ sched.stack[Len(sched.stack)].terminal
    /\ sched' = [sched EXCEPT !.stack = SubSeq(@, 1, Len(@) - 1)]
    /\ last' = [NoInvocation EXCEPT !.kind = "return"]
    /\ UNCHANGED <<ops>>
    /\ UNCHANGED held

ExclusionNext ==
    \/ \E kind \in {"save", "load"} : Start(kind)
    \/ Step
    \/ \E kind \in {"save", "load"} : Observe(kind)
    \/ Return

ExclusionSpec == ExclusionInit /\ [][ExclusionNext]_vars

\* the invocations under way that have not begun their terminal step
InFlight == {i \in DOMAIN sched.stack : ~sched.stack[i].terminal}

----------------------------------------------------------------------------
\* the live entities the map of the last load points at
LoadedEntities == Range(last.entity_map) \cap DOMAIN world

\* the input types of the load mapper that no rule of it writes
LoadInputs ==
    {loadMapper[i].from : i \in DOMAIN loadMapper}
    \ {loadMapper[i].to : i \in DOMAIN loadMapper}

\* C31: a load triggers OnLoaded if and only if it succeeded; the trigger is
\* the last step, after the mapper and after the insertion of Save; at the
\* trigger the Loaded resource is in the world with the final map, every
\* loaded entity carries Save, and no loaded entity carries an input type
\* of the load mapper: replace has consumed it.
OnLoadedOrdering ==
    last.kind = "load" =>
        /\ last.events = <<"OnLoaded">> <=> last.result = "Ok"
        /\ last.events \in {<<>>, <<"OnLoaded">>}
        /\ last.events = <<"OnLoaded">> =>
              /\ last.observed.present
              /\ last.observed.entity_map = last.entity_map
              /\ phase = "PostLoad" => loaded = last.observed
              /\ last.steps[Len(last.steps)] = "insert_loaded"
              /\ Before(last.steps, "write_to_world", "insert_loaded")
              /\ Before(last.steps, "replace", "insert_into_loaded")
              /\ Before(last.steps, "insert_into_loaded", "insert_loaded")
              /\ "insert_into_loaded" \in Range(last.steps)
              /\ loadMapper # <<>> => "replace" \in Range(last.steps)
              /\ \A e \in LoadedEntities :
                    /\ Has(world[e], "Save")
                    /\ \A t \in LoadInputs : ~Has(world[e], t)

\* a load with a mapper triggered OnLoaded for an entity whose component
\* the mapper replaced
OnLoadedWitness ==
    /\ LoadedOk
    /\ last.events = <<"OnLoaded">>
    /\ loadMapper # <<>>
    /\ \E k \in DOMAIN last.scene :
          /\ Has(last.scene[k].components, loadMapper[1].from)
          /\ Has(world[last.entity_map[last.scene[k].entity]], loadMapper[1].to)

----------------------------------------------------------------------------
\* the innermost invocation is before its terminal step
Running ==
    /\ sched.stack # <<>>
    /\ ~sched.stack[Len(sched.stack)].terminal

----------------------------------------------------------------------------
\* the pipeline of a set reads request events and none is unread
NothingPending(set, source) ==
    /\ phase = set
    /\ source = "event"
    /\ Unread(sched) = <<>>

\* the step ran nothing, changed nothing and did not panic
NoOp ==
    /\ phase' # "panicked"
    /\ sched'.log = sched.log
    /\ <<world, resources, nextId, file, loaded>>' =
          <<world, resources, nextId, file, loaded>>

\* C33 as stated: in an update with no pending request event a pipeline
\* built on an event source does nothing: the save pipeline performs no
\* save, the load pipeline performs no load, the world is unchanged and
\* nothing panics.
EventSourceNoOp ==
    [][(NothingPending("Load", sched.load) \/ NothingPending("Save", sched.save))
          => NoOp]_vars

----------------------------------------------------------------------------
\* C34: OnSave is the last step of every save, after after_serialize, for
\* every result; in the world its observers are given no entity carries a
\* mapper output component that it did not carry before the save, and the
\* population is that of before the save.
OnSaveSeesNoSurrogate ==
    last.kind = "save" =>
        /\ last.events = <<last.result>>
        /\ last.steps[Len(last.steps)] = "OnSave"
        /\ Before(last.steps, "after_serialize", "OnSave")
        /\ DOMAIN last.seen = DOMAIN last.before
        /\ \A e \in DOMAIN last.seen : \A t \in Outputs :
              Has(last.seen[e], t) => Has(last.before[e], t)

\* a successful save put a surrogate in the scene for an entity that does
\* not carry it in the world the observers of OnSave see
OnSaveWitness ==
    /\ last.kind = "save"
    /\ last.result = "Ok"
    /\ \E k \in DOMAIN last.scene : \E t \in Outputs :
          /\ Has(last.scene[k].components, t)
          /\ ~Has(last.before[last.scene[k].entity], t)
          /\ ~Has(last.seen[last.scene[k].entity], t)

----------------------------------------------------------------------------
\* the entities that were alive after the unload step of the last load
Survivors == DOMAIN last.unloaded

\* C35: in a successful load the steps after the unload leave every
\* survivor as the unload left it, also a survivor that carries an input
\* type of a rule of the load mapper, and every component of a survivor
\* other than Children is as before the load; the mapper runs on values of
\* the entity map only.  With an empty mapper the replace step does not run
\* and every loaded entity has the data components of its scene entity.
MapperTouchesOnlyLoaded ==
    LoadedOk =>
        /\ Survivors \subseteq DOMAIN world
        /\ Survivors \cap Range(last.entity_map) = {}
        /\ \A e \in Survivors :
              /\ world[e] = last.unloaded[e]
              /\ \A t \in ComponentTypes \ {"Children"} :
                    /\ Has(world[e], t) <=> Has(last.before[e], t)
                    /\ Has(world[e], t) => world[e][t] = last.before[e][t]
        /\ loadMapper = <<>> =>
              /\ "replace" \notin Range(last.steps)
              /\ \A k \in DOMAIN last.scene : \A t \in DataTypes :
                    LET e == last.entity_map[last.scene[k].entity]
                        c == last.scene[k].components
                    IN  /\ Has(world[e], t) <=> Has(c, t)
                        /\ Has(c, t) => world[e][t] = c[t]

\* a load whose mapper replaced a component of a loaded entity left a
\* survivor that carries the input type of the rule
MapperTouchesWitness ==
    /\ LoadedOk
    /\ loadMapper # <<>>
    /\ "replace" \in Range(last.steps)
    /\ \E e \in Survivors : Has(world[e], loadMapper[1].from)
    /\ \E e \in LoadedEntities :
          Has(world[e], loadMapper[1].to) /\ ~Has(world[e], loadMapper[1].from)

----------------------------------------------------------------------------
\* the entities the last save did not select
Unselected == (DOMAIN last.before) \ last.entities

\* C36: a save, whatever its result, leaves the set of live entities as it
\* was; the selected entities are those that match the query filter and
\* pass the entity filter; an entity that is not selected has the same
\* components with the same values when the scene is built and when the
\* save ends, also components of an input or output type of a mapper rule;
\* and the scene holds the selected entities and no other.
SaveFrame ==
    last.kind = "save" =>
        /\ DOMAIN last.seen = DOMAIN last.before
        /\ DOMAIN last.mapped = DOMAIN last.before
        /\ last.entities = SelectEntities(last.before, input, saveFilter)
        /\ SceneIds(last.scene) = last.entities
        /\ \A e \in Unselected :
              /\ last.mapped[e] = last.before[e]
              /\ last.seen[e] = last.before[e]

\* a save with a mapper selected an entity and mapped it, and left alone an
\* unselected entity that carries the output type of the rule
SaveFrameWitness ==
    /\ last.kind = "save"
    /\ input.mapper # <<>>
    /\ \E e \in last.entities : last.mapped[e] # last.before[e]
    /\ \E e \in Unselected :
          /\ Has(last.before[e], input.mapper[1].to)
          /\ Has(last.seen[e], input.mapper[1].to)

----------------------------------------------------------------------------
(* Repeated loads of one saved file: an application whose load pipeline    *)
(* runs in update after update on a file that an earlier run saved, and    *)
(* nothing else touches the world.                                         *)

\* the loads of one behaviour
MaxLoads == 3

\* the worlds whose save left the file: every entity carries Save
ReloadSaved == {w \in RelWorlds : \A e \in DOMAIN w : Has(w[e], "Save")}

ReloadInit ==
    /\ sched = NoSchedule
    /\ world \in RelWorlds
    /\ file \in {SavedFile(w) : w \in ReloadSaved}
    /\ resources = {}
    /\ nextId = Cardinality(DOMAIN world) + 1
    /\ input = SaveInput_default
    /\ saveFilter = "With<Save>"
    /\ loadMapper = <<>>
    /\ loaded = NoResource
    /\ phase = "idle"
    /\ ops = 0
    /\ faults = 0
    /\ last = NoInvocation

\* the load system runs in the Load set of one more update
Reload(order) ==
    LET r == load(file, loadMapper, world, resources, nextId, order)
        fin == insert_loaded(r.marked, loaded)
    IN  /\ phase = "idle"
        /\ ops < MaxLoads
        /\ ops' = ops + 1
        /\ phase' = "PostLoad"
        /\ world' = r.marked.world
        /\ resources' = r.marked.resources
        /\ nextId' = r.marked.nextId
        /\ loaded' = fin.resource
        /\ last' = LoadInvocation(world, file, r, fin)
        /\ UNCHANGED <<sched, file, input, saveFilter, loadMapper, faults>>

ReloadNext ==
    \/ \E order \in Orders(UnloadQuery(world)) : Reload(order)
    \/ PostLoad

ReloadSpec == ReloadInit /\ [][ReloadNext]_vars

\* the live entities that the load of the invocation record created
CreatedBy(invocation, w) == Range(invocation.entity_map) \cap DOMAIN w

\* the entities a load created are as many as the scene entities, one per
\* scene entity, and none was alive after the unload
OnePerSceneEntity(invocation, w) ==
    /\ \A k \in SceneIds(invocation.scene) :
          invocation.entity_map[k] \in CreatedBy(invocation, w)
    /\ \A j, k \in SceneIds(invocation.scene) :
          invocation.entity_map[j] = invocation.entity_map[k] => j = k
    /\ Cardinality(CreatedBy(invocation, w)) =
          Cardinality(SceneIds(invocation.scene))
    /\ CreatedBy(invocation, w) \cap DOMAIN invocation.unloaded = {}
    /\ DOMAIN w = (DOMAIN invocation.unloaded) \cup CreatedBy(invocation, w)
    /\ Before(invocation.steps, "unload", "write_to_world")

\* a successful load follows a successful load of the same file
LoadAfterLoad ==
    /\ LoadedOk
    /\ ops' = ops + 1
    /\ last'.kind = "load"
    /\ last'.result = "Ok"
    /\ file' = file

\* C37: after every successful load the live entities that loads created
\* are those of this load, one per scene entity, created after the unload;
\* and a successful load that follows a successful load of the same file
\* removes in its unload every entity the earlier load created, keeps the
\* same survivors, and leaves as many live entities as there were.
NoAccumulation ==
    /\ [](LoadedOk => OnePerSceneEntity(last, world))
    /\ [][LoadAfterLoad =>
            /\ CreatedBy(last, world) \cap DOMAIN last'.unloaded = {}
            /\ CreatedBy(last, world) \cap DOMAIN world' = {}
            /\ DOMAIN last'.unloaded = DOMAIN last.unloaded
            /\ \A e \in DOMAIN last'.unloaded : world'[e] = world[e]
            /\ OnePerSceneEntity(last', world')
            /\ Cardinality(DOMAIN world') = Cardinality(DOMAIN world)]_vars

\* the third load in a row of a scene of two entities succeeded in a world
\* with a survivor
NoAccumulationWitness ==
    /\ LoadedOk
    /\ ops = MaxLoads
    /\ Cardinality(SceneIds(last.scene)) = 2
    /\ DOMAIN last.unloaded # {}
    /\ Cardinality(DOMAIN world) = Cardinality(DOMAIN last.unloaded) + 2

----------------------------------------------------------------------------
\* a save of the current world with the given output and failing step
SaveNow(output, fail) ==
    save_on(world, resources, input, saveFilter, output, fail)

\* a step of the behaviour is a save with output Drop
DropStep ==
    /\ ops' = ops + 1
    /\ last'.kind = "save"
    /\ last'.output = "Drop"

\* C38: in every world, whichever step of an output would fail, a save
\* with output Drop ends with Ok after filter, before_serialize, build and
\* after_serialize and no step of an output; it selects the entities,
\* builds the scene and leaves the world as the save into a file does; it
\* triggers OnSave once with Ok; and the step leaves the file as it was.
DropSaves ==
    /\ [](\A fail \in Failures :
             LET r == SaveNow("Drop", fail)
                 f == SaveNow("File", "none")
             IN  /\ r.result = "Ok"
                 /\ r.events = <<"Ok">>
                 /\ r.steps = <<"filter", "before_serialize", "build",
                                "after_serialize", "OnSave">>
                 /\ r.entities = f.entities
                 /\ r.mapped = f.mapped
                 /\ r.scene = f.scene
                 /\ r.resources = f.resources
                 /\ r.world = f.world
                 /\ r.seen = f.seen)
    /\ [][DropStep =>
            /\ file' = file
            /\ last'.result = "Ok"
            /\ last'.events = <<"Ok">>
            /\ last'.scene = SaveNow("File", "none").scene
            /\ world' = SaveNow("File", "none").world
            /\ Range(last'.steps) \cap OutputSteps = {}]_vars

\* a save with output Drop built a scene with a surrogate in it, ended
\* with Ok, and there is no file
DropWitness ==
    /\ last.kind = "save"
    /\ last.output = "Drop"
    /\ last.result = "Ok"
    /\ last.events = <<"Ok">>
    /\ file.kind = "none"
    /\ \E k \in DOMAIN last.scene : \E t \in Outputs :
          /\ Has(last.scene[k].components, t)
          /\ ~Has(last.before[last.scene[k].entity], t)

----------------------------------------------------------------------------
\* C39: in a successful load with a mapper, whatever the order in which
\* the values of the entity map are visited, the mapper loop takes the
\* world in which the scene was written to the same world, the one the
\* load went on with; so any two orders give the same world.
OrderIndependent ==
    (LoadedOk /\ loadMapper # <<>>) =>
        \A order \in Orders(Range(last.entity_map)) :
            replace_each(loadMapper, last.instantiated, order) = last.written

\* a load with a mapper replaced a component of two loaded entities
OrderIndependentWitness ==
    /\ LoadedOk
    /\ loadMapper # <<>>
    /\ \E e1, e2 \in Range(last.entity_map) \cap DOMAIN last.written :
          /\ e1 # e2
          /\ last.instantiated[e1] # last.written[e1]
          /\ last.instantiated[e2] # last.written[e2]

====
